---------------------------- MODULE Spec2Model ----------------------------
(***************************************************************************)
(* A model of OSPFS (ospfsmod.c): the in-memory file system whose disk is  *)
(* the byte array ospfs_data.  The image is kept byte for byte (boot       *)
(* sector, free-block bitmap, directory, index and data blocks); the inode *)
(* table is kept as records.  All layout constants are scaled down so that *)
(* the direct / indirect / doubly-indirect boundaries are reached with a   *)
(* handful of blocks.                                                      *)
(***************************************************************************)
EXTENDS Integers, Sequences, FiniteSets, TLC

(***************************************************************************)
(* Layout constants (ospfs.h), scaled.                                     *)
(***************************************************************************)
OSPFS_BLKSIZE == 16
OSPFS_BLKBITSIZE == OSPFS_BLKSIZE * 8
OSPFS_NDIRECT == 2
OSPFS_NINDIRECT == OSPFS_BLKSIZE \div 4
OSPFS_DIRENTRY_SIZE == 8
OSPFS_MAXNAMELEN == 2
OSPFS_MAXSYMLINKLEN == 12
OSPFS_FREEMAP_BLK == 2
OSPFS_ROOT_INO == 1
OSPFS_FTYPE_REG == 0
OSPFS_FTYPE_DIR == 1
OSPFS_FTYPE_SYMLINK == 2

\* Kernel error numbers, as the negative values the handlers return.
EPERM == -1
ENOENT == -2
EIO == -5
EEXIST == -17
EINVAL == -22
ENOSPC == -28
ENAMETOOLONG == -36
\* The d_type values handed to filldir.
DT_DIR == 4
DT_REG == 8
DT_LNK == 10
\* Not a return value: the handler stored through an error pointer and the
\* kernel killed the call at that store.
OOPS == -1000

\* uint32_t values.  The model's integers end at 2^31 - 1: every value from
\* 2^31 up is kept as BigWord.  As a block number, an inode number or an
\* address it lies outside the image like the value it stands for; as a
\* link count it is as far from zero.
BigWord == 2147483647
\* x - 1 and x + 1 in uint32_t, 0 - 1 being 0xFFFFFFFF.
Dec32(x) == IF x = 0 THEN BigWord ELSE x - 1
Inc32(x) == IF x = BigWord THEN 0 ELSE x + 1

(***************************************************************************)
(* The image the model runs on (the superblock's fields) and the inputs    *)
(* the operations are called with.                                         *)
(***************************************************************************)
os_nblocks == 16
os_ninodes == 4
os_firstinob == 3
\* The inode table occupies one block; data blocks start after it.
FirstDataBlock == os_firstinob + 1
MaxOps == 4
\* The listing runs start from a directory of four entries and make fewer
\* calls.
DirOps == 3

ImageBytes == os_nblocks * OSPFS_BLKSIZE

\* File names, as byte strings: "a", "b" and a name of MAXNAMELEN + 1 bytes.
Names == { <<97>>, <<98>>, <<99, 99, 99>> }
Modes == { 420 }
\* Sizes handed to notify_change, in bytes: 0; half a block; NDIRECT blocks;
\* NDIRECT blocks and a half; NDIRECT + NINDIRECT blocks; more blocks than
\* the image has free.
Sizes == { 0, 8, 32, 40, 96, 144 }
\* Buffers handed to write and positions handed to read and write.
Bufs == { <<7>>, <<7, 9>> }
Positions == { 0, 1, 15 }
Counts == { 1, 2 }
\* The texts of the symbolic links in the namespace runs: a short one and
\* one longer than OSPFS_MAXSYMLINKLEN.
Texts ==
    { <<120>>,
      <<120, 120, 120, 120, 120, 120, 120, 120, 120, 120, 120, 120, 120>> }
\* The names of the directory listing runs, and how many entries the
\* consumer of a readdir call takes before it refuses one.
DirNames == { <<97>>, <<98>>, <<97, 97>>, <<97, 98>>, <<98, 97>> }
Rooms == { 1, 3, 8 }
\* The sizes, buffers and positions of the runs that shrink a file: sizes of
\* no block, of one, of NDIRECT blocks and a half, of NDIRECT + NINDIRECT
\* blocks, of one more and of one block more than a file can have; the
\* first byte of a block number, and two bytes; the start of the file and
\* of its block NDIRECT.
TruncSizes == { 0, 8, 40, 96, 112, 368 }
TruncBufs == { <<3>>, <<7, 9>> }
TruncPositions == { 0, 32 }
\* The data blocks of the 264-block image that are free or in use at the
\* start of a run and are handed to free_block: the first one, the last of
\* the first bitmap block, the first two of the second and of the third.
MapFree == { 6, 127, 128, 129, 256, 257 }
\* The sizes of the runs on two files: no block, one, NDIRECT, NDIRECT and
\* a half, NDIRECT + NINDIRECT, one more, and more blocks than the image
\* has free.
PairSizes == { 0, 8, 32, 40, 96, 112, 144 }
\* The callers of follow_link: root and another user.
Uids == { 0, 1000 }
\* The halves of a conditional link are strings of at most MaxPart bytes
\* over 'a' and 'b'.
MaxPart == 2
PartBytes == { 97, 98 }

VARIABLES
    ospfs_data,   \* the image: block number -> the block's bytes
    inodes,       \* the inode table: inode number -> ospfs_inode_t
    last,         \* the last operation: its arguments and what it returned
    nops,         \* operations performed so far
    dcache        \* the dentries instantiated: name -> inode number

vars == <<ospfs_data, inodes, last, nops, dcache>>

(***************************************************************************)
(* Memory.  The image is kept block by block: byte address a is byte       *)
(* a % OSPFS_BLKSIZE of block a / OSPFS_BLKSIZE.  An address outside       *)
(* ospfs_data is not part of the modelled state: a load from it yields 0   *)
(* and a store to it is lost.                                              *)
(***************************************************************************)
InImage(a) == a >= 0 /\ a < ImageBytes

Peek(im, a) ==
    IF InImage(a) THEN im[a \div OSPFS_BLKSIZE][a % OSPFS_BLKSIZE] ELSE 0

Poke(im, a, v) ==
    IF InImage(a)
    THEN [im EXCEPT ![a \div OSPFS_BLKSIZE][a % OSPFS_BLKSIZE] = v]
    ELSE im

\* Stores bytes[1], bytes[2], ... at a, a + 1, ...
RECURSIVE PokeBytes(_, _, _)
PokeBytes(im, a, bytes) ==
    IF bytes = <<>> THEN im
    ELSE PokeBytes(Poke(im, a, Head(bytes)), a + 1, Tail(bytes))

Word(im, a) ==
    IF Peek(im, a + 3) >= 128 THEN BigWord
    ELSE Peek(im, a) + 256 * Peek(im, a + 1) + 65536 * Peek(im, a + 2)
            + 16777216 * Peek(im, a + 3)

WordBytes(v) ==
    << v % 256, (v \div 256) % 256, (v \div 65536) % 256,
       (v \div 16777216) % 256 >>

PokeWord(im, a, v) == PokeBytes(im, a, WordBytes(v))

\* ospfs_block(blockno): the address of the block.  A block number of 2^20
\* or more is far outside the image, and so is the address given for it.
ospfs_block(blockno) ==
    IF blockno >= 1048576 THEN 16777216 ELSE blockno * OSPFS_BLKSIZE

\* ((uint32_t *) ospfs_block(blockno))[i], read and written.
BlockWord(im, blockno, i) == Word(im, ospfs_block(blockno) + 4 * i)
SetBlockWord(im, blockno, i, v) == PokeWord(im, ospfs_block(blockno) + 4 * i, v)

\* The loop "cur_block_char[idx_data] = 0" over one block.
ZeroBlock(im, blockno) ==
    IF blockno < os_nblocks
    THEN [im EXCEPT ![blockno] = [x \in 0..(OSPFS_BLKSIZE - 1) |-> 0]]
    ELSE im

(***************************************************************************)
(* Bit vector operations.  'vector' is the address of the vector; bit i of *)
(* a little-endian uint32_t array is bit i % 8 of byte i / 8.              *)
(***************************************************************************)
Pow2(k) == 2 ^ k
BitOf(byte, k) == (byte \div Pow2(k)) % 2

bitvector_test(im, vector, i) ==
    BitOf(Peek(im, vector + (i \div 8)), i % 8) = 1

bitvector_set(im, vector, i) ==
    LET a == vector + (i \div 8)
        b == Peek(im, a)
    IN  IF BitOf(b, i % 8) = 1 THEN im
        ELSE Poke(im, a, b + Pow2(i % 8))

bitvector_clear(im, vector, i) ==
    LET a == vector + (i \div 8)
        b == Peek(im, a)
    IN  IF BitOf(b, i % 8) = 0 THEN im
        ELSE Poke(im, a, b - Pow2(i % 8))

\* File sizes stay far below 2^32 - OSPFS_BLKSIZE here: the sum does not wrap.
ospfs_size2nblocks(size) == (size + OSPFS_BLKSIZE - 1) \div OSPFS_BLKSIZE

(***************************************************************************)
(* Free-block bitmap.                                                      *)
(***************************************************************************)
\* The for loop of allocate_block from block 'idx' up to the superblock's
\* os_nblocks, with the freemap pointer at bitmap block 'freemap_idx'.
\* AllocRun is at most 'left' iterations of it: the block number returned
\* (0: disk full) and the image, or the idx and freemap_idx the loop goes
\* on with.  AllocScan is the whole loop, one run of OSPFS_BLKSIZE
\* iterations after the other.
RECURSIVE AllocRun(_, _, _, _, _)
AllocRun(im, nblocks, idx, freemap_idx, left) ==
    LET freemap == ospfs_block(OSPFS_FREEMAP_BLK + freemap_idx)
    IN  IF idx >= nblocks THEN [done |-> TRUE, blk |-> 0, img |-> im]
        ELSE IF left = 0
        THEN [done |-> FALSE, idx |-> idx, freemap_idx |-> freemap_idx]
        ELSE IF bitvector_test(im, freemap, idx % OSPFS_BLKBITSIZE)
        THEN [done |-> TRUE, blk |-> idx,
              img |-> bitvector_clear(im, freemap, idx % OSPFS_BLKBITSIZE)]
        ELSE AllocRun(im, nblocks, idx + 1,
                      IF idx = OSPFS_BLKBITSIZE THEN freemap_idx + 1
                      ELSE freemap_idx,
                      left - 1)

RECURSIVE AllocScan(_, _, _, _)
AllocNext(im, nblocks, run) ==
    IF run.done THEN [blk |-> run.blk, img |-> run.img]
    ELSE AllocScan(im, nblocks, run.idx, run.freemap_idx)

AllocScan(im, nblocks, idx, freemap_idx) ==
    AllocNext(im, nblocks,
              AllocRun(im, nblocks, idx, freemap_idx, OSPFS_BLKSIZE))

\* allocate_block under the superblock 'super' (ospfs_super).
allocate_under(im, super) ==
    AllocScan(im, super.os_nblocks, super.os_firstinob, 0)

ospfs_super == [os_nblocks |-> os_nblocks, os_firstinob |-> os_firstinob]

allocate_block(im) == allocate_under(im, ospfs_super)

free_block(im, blockno) ==
    LET freemap_idx == blockno \div OSPFS_BLKBITSIZE
        freemap == ospfs_block(OSPFS_FREEMAP_BLK + freemap_idx)
    IN  bitvector_set(im, freemap, blockno % OSPFS_BLKBITSIZE)

(***************************************************************************)
(* Block index helpers.  b is a uint32_t file block index.                 *)
(***************************************************************************)
MaxFileBlocks ==
    OSPFS_NINDIRECT * OSPFS_NINDIRECT + OSPFS_NINDIRECT + OSPFS_NDIRECT

indir2_index(b) ==
    IF b < OSPFS_NINDIRECT + OSPFS_NDIRECT THEN -1
    ELSE IF b < MaxFileBlocks THEN 0
    ELSE -2

indir_index(b) ==
    IF b < OSPFS_NDIRECT THEN -1
    ELSE IF b < OSPFS_NINDIRECT + OSPFS_NDIRECT THEN 0
    ELSE IF b < MaxFileBlocks
    THEN (b - (OSPFS_NINDIRECT + OSPFS_NDIRECT)) \div OSPFS_NINDIRECT
    ELSE -2

direct_index(b) ==
    IF b < OSPFS_NDIRECT THEN b
    ELSE IF b < OSPFS_NDIRECT + OSPFS_NINDIRECT THEN b - OSPFS_NDIRECT
    ELSE IF b < MaxFileBlocks
    THEN (b - OSPFS_NDIRECT - OSPFS_NINDIRECT) % OSPFS_NINDIRECT
    ELSE -1

\* The block number of the block that holds byte 'offset' of the file.
ospfs_inode_blockno(im, oi, offset) ==
    LET blockno == offset \div OSPFS_BLKSIZE
        blockoff == blockno - (OSPFS_NDIRECT + OSPFS_NINDIRECT)
    IN  IF offset >= oi.oi_size \/ oi.oi_ftype = OSPFS_FTYPE_SYMLINK THEN 0
        ELSE IF blockno >= OSPFS_NDIRECT + OSPFS_NINDIRECT
        THEN BlockWord(im,
                 BlockWord(im, oi.oi_indirect2, blockoff \div OSPFS_NINDIRECT),
                 blockoff % OSPFS_NINDIRECT)
        ELSE IF blockno >= OSPFS_NDIRECT
        THEN BlockWord(im, oi.oi_indirect, blockno - OSPFS_NDIRECT)
        ELSE oi.oi_direct[blockno]

\* The address of byte 'offset' of the file.
ospfs_inode_data(im, oi, offset) ==
    ospfs_block(ospfs_inode_blockno(im, oi, offset)) + (offset % OSPFS_BLKSIZE)


(***************************************************************************)
(* add_block, remove_block, change_size.  Each takes the image and the     *)
(* inode and returns the image, the inode and the return value r.          *)
(***************************************************************************)
Ret(im, oi, r) == [img |-> im, oi |-> oi, r |-> r]

\* add_block when the file has no block yet (n == 0); a is what
\* allocate_block returned.
AddFirstBlock(a, oi) ==
    IF a.blk = 0 THEN Ret(a.img, [oi EXCEPT !.oi_direct[0] = 0], ENOSPC)
    ELSE Ret(ZeroBlock(a.img, a.blk),
             [oi EXCEPT !.oi_direct[0] = a.blk,
                        !.oi_size = @ + OSPFS_BLKSIZE], 0)

\* How many blocks add_block allocates for file block n (n > 0: n - 1 does
\* not wrap).
NewBlocks(n) ==
    IF indir2_index(n) # indir2_index((n - 1)) THEN 3
    ELSE IF indir_index(n) # indir_index((n - 1)) THEN 2
    ELSE 1

\* "for ( ; idx_block >= 0; idx_block-- ) free_block(allocated[idx_block])".
\* The code's allocated[k] is allocated[k + 1] here.
RECURSIVE FreeBack(_, _, _)
FreeBack(im, allocated, idx_block) ==
    IF idx_block < 0 THEN im
    ELSE FreeBack(free_block(im, allocated[idx_block + 1]), allocated,
                  idx_block - 1)

\* The allocation loop of add_block: ok and allocated[0 .. new_blocks - 1],
\* or the blocks obtained so far freed again and ok = FALSE.
RECURSIVE AllocLoop(_, _, _, _)
AllocStep(a, allocated, idx_block, new_blocks) ==
    IF a.blk = 0
    THEN [ok |-> FALSE, img |-> FreeBack(a.img, allocated, idx_block - 1),
          allocated |-> allocated]
    ELSE AllocLoop(a.img, [allocated EXCEPT ![idx_block + 1] = a.blk],
                   idx_block + 1, new_blocks)

AllocLoop(im, allocated, idx_block, new_blocks) ==
    IF idx_block >= new_blocks
    THEN [ok |-> TRUE, img |-> im, allocated |-> allocated]
    ELSE AllocStep(allocate_block(im), allocated, idx_block, new_blocks)

\* "Zeroing out blocks": allocated[idx_block .. new_blocks - 1].
RECURSIVE ZeroAll(_, _, _, _)
ZeroAll(im, allocated, idx_block, new_blocks) ==
    IF idx_block >= new_blocks THEN im
    ELSE ZeroAll(ZeroBlock(im, allocated[idx_block + 1]), allocated,
                 idx_block + 1, new_blocks)

\* The stores that link the new blocks in.  allocated[1] is the data block,
\* allocated[2] the indirect block, allocated[3] the doubly indirect block
\* (the code's allocated[0], [1], [2]).
LinkBlocks(im, oi, n, allocated, new_blocks) ==
    IF new_blocks = 3
    THEN [img |-> SetBlockWord(SetBlockWord(im, allocated[3], 0, allocated[2]),
                               allocated[2], 0, allocated[1]),
          oi |-> [oi EXCEPT !.oi_indirect2 = allocated[3]]]
    ELSE IF new_blocks = 2
    THEN [img |-> SetBlockWord(
                      SetBlockWord(im, allocated[2], 0, allocated[1]),
                      IF indir2_index(n) = 0 THEN oi.oi_indirect2
                      ELSE oi.oi_indirect,
                      IF indir2_index(n) = 0 THEN indir_index(n) ELSE 0,
                      allocated[2]),
          oi |-> oi]
    ELSE IF indir2_index(n) = 0
    THEN [img |-> SetBlockWord(im,
                      BlockWord(im, oi.oi_indirect2, indir_index(n)),
                      direct_index(n), allocated[1]),
          oi |-> oi]
    ELSE IF indir_index(n) # -1
    THEN [img |-> SetBlockWord(im, oi.oi_indirect, direct_index(n), allocated[1]),
          oi |-> oi]
    ELSE [img |-> im,
          oi |-> [oi EXCEPT !.oi_direct[direct_index(n)] = allocated[1]]]

\* "updating size field" and "return 0".
AddLinked(linked) ==
    Ret(linked.img, [linked.oi EXCEPT !.oi_size = @ + OSPFS_BLKSIZE], 0)

\* add_block from the end of its allocation loop, whose outcome is 'got'.
AddAllocated(got, oi, n, new_blocks) ==
    IF ~got.ok THEN Ret(got.img, oi, ENOSPC)
    ELSE AddLinked(LinkBlocks(ZeroAll(got.img, got.allocated, 0, new_blocks),
                              oi, n, got.allocated, new_blocks))

add_block(im, oi) ==
    LET n == ospfs_size2nblocks(oi.oi_size)
    IN  IF n = 0 THEN AddFirstBlock(allocate_block(im), oi)
        ELSE AddAllocated(AllocLoop(im, <<0, 0, 0>>, 0, NewBlocks(n)),
                          oi, n, NewBlocks(n))

\* The blocks remove_block frees for a file of n blocks, in the order freed.
\* change_size calls remove_block with n > 0 only: n - 1 does not wrap.
RemovedBlocks(im, oi, n) ==
    IF indir2_index(n) # indir2_index((n - 1))
    THEN LET a2 == oi.oi_indirect2
             a1 == BlockWord(im, a2, 0)
             a0 == BlockWord(im, a1, 0)
         IN  <<a0, a1, a2>>
    ELSE IF indir_index(n) # indir_index((n - 1))
    THEN IF indir2_index(n) = 0
         THEN LET a2 == oi.oi_indirect2
                  a1 == BlockWord(im, a2, indir_index((n - 1)))
                  a0 == BlockWord(im, a1, direct_index((n - 1)))
              IN  <<a0, a1>>
         ELSE LET a1 == oi.oi_indirect
                  a0 == BlockWord(im, a1, direct_index((n - 1)))
              IN  <<a0, a1>>
    ELSE IF indir2_index(n) = 0
    THEN LET a2 == oi.oi_indirect2
             a1 == BlockWord(im, a2, indir_index((n - 1)))
             a0 == BlockWord(im, a1, direct_index((n - 1)))
         IN  <<a0>>
    ELSE IF indir_index(n) # -1
    THEN <<BlockWord(im, oi.oi_indirect, direct_index((n - 1)))>>
    ELSE <<oi.oi_direct[direct_index((n - 1))]>>

RECURSIVE FreeAll(_, _)
FreeAll(im, blocks) ==
    IF blocks = <<>> THEN im
    ELSE FreeAll(free_block(im, Head(blocks)), Tail(blocks))

\* The size remove_block leaves.
RemovedSize(size) ==
    LET s1 == size - (size % OSPFS_BLKSIZE)
    IN  IF (s1 % OSPFS_BLKSIZE) = 0 /\ s1 # 0 THEN s1 - OSPFS_BLKSIZE ELSE s1

remove_block(im, oi) ==
    Ret(FreeAll(im, RemovedBlocks(im, oi, ospfs_size2nblocks(oi.oi_size))),
        [oi EXCEPT !.oi_size = RemovedSize(@)], 0)

\* The first loop of change_size; GrowStep is its body after add_block
\* returned a.
RECURSIVE GrowLoop(_, _, _)
GrowStep(a, new_size) ==
    IF a.r < 0 THEN a ELSE GrowLoop(a.img, a.oi, new_size)

GrowLoop(im, oi, new_size) ==
    IF ospfs_size2nblocks(oi.oi_size) < ospfs_size2nblocks(new_size)
    THEN GrowStep(add_block(im, oi), new_size)
    ELSE Ret(im, oi, 0)

\* The second loop of change_size; ShrinkStep is its body after remove_block
\* returned d.
RECURSIVE ShrinkLoop(_, _, _)
ShrinkStep(d, new_size) ==
    IF d.r < 0 THEN d ELSE ShrinkLoop(d.img, d.oi, new_size)

ShrinkLoop(im, oi, new_size) ==
    IF ospfs_size2nblocks(oi.oi_size) > ospfs_size2nblocks(new_size)
    THEN ShrinkStep(remove_block(im, oi), new_size)
    ELSE Ret(im, oi, 0)

\* "oi->oi_size = new_size; return 0", after the second loop returned s.
SetSize(s, new_size) ==
    IF s.r < 0 THEN s
    ELSE Ret(s.img, [s.oi EXCEPT !.oi_size = new_size], 0)

\* change_size after its first loop returned g: an error is returned at
\* once, with what the loop has done left in place.
ShrinkFrom(g, new_size) ==
    IF g.r < 0 THEN g
    ELSE SetSize(ShrinkLoop(g.img, g.oi, new_size), new_size)

change_size(im, oi, new_size) ==
    ShrinkFrom(GrowLoop(im, oi, new_size), new_size)

\* free_block checks nothing: for a block number whose bitmap word lies
\* beyond ospfs_data, bitvector_set stores outside the image.  The store
\* either lands in memory that is no part of the file system, and the call
\* goes on as if it had not been made, or faults, and the kernel kills the
\* call there.
WildFree(blockno) ==
    ~InImage(ospfs_block(OSPFS_FREEMAP_BLK + (blockno \div OSPFS_BLKBITSIZE))
                + 4 * ((blockno % OSPFS_BLKBITSIZE) \div 32) + 3)

\* The frees of one remove_block up to the first store outside the image.
RECURSIVE FreeUntilWild(_, _)
FreeUntilWild(im, blocks) ==
    IF blocks = <<>> THEN [img |-> im, wild |-> FALSE]
    ELSE IF WildFree(Head(blocks)) THEN [img |-> im, wild |-> TRUE]
    ELSE FreeUntilWild(free_block(im, Head(blocks)), Tail(blocks))

\* The second loop of change_size when the first store outside the image
\* faults: r is OOPS if there is such a store.  ShrinkFaultStep is its body
\* after the frees of remove_block ended as f.
RECURSIVE ShrinkFault(_, _, _)
ShrinkFaultStep(f, oi, new_size) ==
    IF f.wild THEN Ret(f.img, oi, OOPS)
    ELSE ShrinkFault(f.img, [oi EXCEPT !.oi_size = RemovedSize(@)], new_size)

ShrinkFault(im, oi, new_size) ==
    IF ospfs_size2nblocks(oi.oi_size) > ospfs_size2nblocks(new_size)
    THEN ShrinkFaultStep(
             FreeUntilWild(im, RemovedBlocks(im, oi,
                                             ospfs_size2nblocks(oi.oi_size))),
             oi, new_size)
    ELSE Ret(im, oi, 0)

\* change_size of a file that has no fewer blocks than new_size needs: its
\* first loop does nothing.
change_size_fault(im, oi, new_size) == ShrinkFault(im, oi, new_size)


(***************************************************************************)
(* Directory entries.  An entry is OSPFS_DIRENTRY_SIZE bytes at address    *)
(* od: od_ino (uint32_t) at od, od_name (NUL-terminated) at od + 4.        *)
(***************************************************************************)
od_ino(im, od) == Word(im, od)

RECURSIVE strlen(_, _)
strlen(im, a) == IF Peek(im, a) = 0 THEN 0 ELSE 1 + strlen(im, a + 1)

\* memcmp(od->od_name, name, namelen) == 0
NameMatches(im, od, name) ==
    /\ strlen(im, od + 4) = Len(name)
    /\ \A i \in 1..Len(name) : Peek(im, od + 4 + (i - 1)) = name[i]

\* The stores "od_name[idx] = name[idx]" for idx < len, then "od_name[len] = 0".
SetName(im, od, name) == PokeBytes(im, od + 4, name \o <<0>>)

\* The name stored in the entry at od, and the set of (name, inode number)
\* pairs of the directory's non-free entries.
EntryName(im, od) ==
    [i \in 1..strlen(im, od + 4) |-> Peek(im, od + 4 + (i - 1))]

EntryAt(im, dir_oi, k) == ospfs_inode_data(im, dir_oi, k * OSPFS_DIRENTRY_SIZE)

DirEntries(im, dir_oi) ==
    { <<EntryName(im, EntryAt(im, dir_oi, k)), od_ino(im, EntryAt(im, dir_oi, k))>> :
        k \in { j \in 0..((dir_oi.oi_size \div OSPFS_DIRENTRY_SIZE) - 1) :
                  od_ino(im, EntryAt(im, dir_oi, j)) # 0 } }

\* A search that finds no entry, whatever the directory holds.
find_nothing(im, dir_oi, name) == [found |-> FALSE, od |-> 0]

RECURSIVE FindScan(_, _, _, _)
FindScan(im, dir_oi, name, off) ==
    IF off >= dir_oi.oi_size THEN [found |-> FALSE, od |-> 0]
    ELSE LET od == ospfs_inode_data(im, dir_oi, off)
         IN  IF od_ino(im, od) # 0 /\ NameMatches(im, od, name)
             THEN [found |-> TRUE, od |-> od]
             ELSE FindScan(im, dir_oi, name, off + OSPFS_DIRENTRY_SIZE)

find_direntry(im, dir_oi, name) == FindScan(im, dir_oi, name, 0)

\* The scan of create_blank_direntry: the first entry with od_ino == 0, or
\* the position at which the directory's blocks end.
RECURSIVE BlankScan(_, _, _)
BlankScan(im, dir_oi, dir_pos) ==
    IF ospfs_inode_blockno(im, dir_oi, dir_pos) # 0
    THEN LET dir_entry == ospfs_inode_data(im, dir_oi, dir_pos)
         IN  IF od_ino(im, dir_entry) = 0
             THEN [found |-> TRUE, od |-> dir_entry, dir_pos |-> dir_pos]
             ELSE BlankScan(im, dir_oi, dir_pos + OSPFS_DIRENTRY_SIZE)
    ELSE [found |-> FALSE, od |-> 0, dir_pos |-> dir_pos]

\* create_blank_direntry returns the image, the directory's inode, and
\* either the entry's address (err = 0) or the error pointer's error.
\* BlankGrown: after change_size returned c.
BlankGrown(c, dir_pos) ==
    IF c.r < 0
    THEN [img |-> c.img, oi |-> c.oi, err |-> ENOSPC, od |-> 0]
    ELSE [img |-> c.img, oi |-> c.oi, err |-> 0,
          od |-> ospfs_inode_data(c.img, c.oi, dir_pos)]

\* A variant that grows the directory by half an entry only.
blank_half_entry(im, dir_oi, scan) ==
    IF scan.found
    THEN [img |-> im, oi |-> dir_oi, err |-> 0, od |-> scan.od]
    ELSE BlankGrown(change_size(im, dir_oi,
                                scan.dir_pos + OSPFS_DIRENTRY_SIZE \div 2),
                    scan.dir_pos)

\* BlankFound: after the scan for an empty entry ended as 'scan'.
BlankFound(im, dir_oi, scan) ==
    IF scan.found
    THEN [img |-> im, oi |-> dir_oi, err |-> 0, od |-> scan.od]
    ELSE BlankGrown(change_size(im, dir_oi,
                                scan.dir_pos + OSPFS_DIRENTRY_SIZE),
                    scan.dir_pos)

create_blank_direntry(im, dir_oi) ==
    BlankFound(im, dir_oi, BlankScan(im, dir_oi, 0))

(***************************************************************************)
(* Namespace operations.  Each takes the image and the inode table and     *)
(* returns both and the return value r.                                    *)
(***************************************************************************)
FsRet(im, ins, r) == [img |-> im, inodes |-> ins, r |-> r]

\* The scan for a free inode in ospfs_create, from entry_ino: the first
\* inode number with oi_nlink == 0, or os_ninodes when ospfs_inode() fails.
RECURSIVE FreeInodeScan(_, _)
FreeInodeScan(ins, entry_ino) ==
    IF entry_ino >= os_ninodes THEN os_ninodes
    ELSE IF ins[entry_ino].oi_nlink = 0 THEN entry_ino
    ELSE FreeInodeScan(ins, entry_ino + 1)

\* ospfs_create from the free inode scan on: the name is in the entry at od
\* (image im1) and the scan stopped at entry_ino.
CreateInode(im1, ins1, od, name, mode, entry_ino) ==
    IF entry_ino >= os_ninodes
    THEN [img |-> im1, inodes |-> ins1, r |-> ENOSPC, ino |-> 0]
    ELSE IF Len(name) > OSPFS_MAXNAMELEN
    THEN [img |-> im1,
          inodes |-> [ins1 EXCEPT ![entry_ino] =
                         [@ EXCEPT !.oi_nlink = Inc32(@),
                                   !.oi_mode = mode,
                                   !.oi_ftype = OSPFS_FTYPE_REG]],
          r |-> ENAMETOOLONG, ino |-> entry_ino]
    ELSE [img |-> PokeWord(SetName(im1, od, name), od, entry_ino),
          inodes |-> [ins1 EXCEPT ![entry_ino] =
                         [@ EXCEPT !.oi_nlink = Inc32(@),
                                   !.oi_mode = mode,
                                   !.oi_ftype = OSPFS_FTYPE_REG]],
          r |-> 0, ino |-> entry_ino]

\* ospfs_create after create_blank_direntry returned 'blank'.  The result
\* is not checked for an error pointer: the store of the name through one
\* faults in the kernel, and the call does not return (r = OOPS).
CreateEntry(blank, ins, dir, name, mode) ==
    IF blank.err < 0
    THEN [img |-> blank.img, inodes |-> [ins EXCEPT ![dir] = blank.oi],
          r |-> OOPS, ino |-> 0]
    ELSE CreateInode(SetName(blank.img, blank.od, name),
                     [ins EXCEPT ![dir] = blank.oi], blank.od, name, mode,
                     FreeInodeScan([ins EXCEPT ![dir] = blank.oi], 2))

ospfs_create(im, ins, dir, name, mode) ==
    IF find_direntry(im, ins[dir], name).found
    THEN [img |-> im, inodes |-> ins, r |-> EEXIST, ino |-> 0]
    ELSE CreateEntry(create_blank_direntry(im, ins[dir]), ins, dir, name, mode)

\* ospfs_dir_lookup: the inode number the name is bound to, 0 for a negative
\* dentry, or an error.
RECURSIVE LookupScan(_, _, _, _)
LookupScan(im, dir_oi, name, entry_off) ==
    IF entry_off >= dir_oi.oi_size THEN 0
    ELSE LET od == ospfs_inode_data(im, dir_oi, entry_off)
         IN  IF od_ino(im, od) > 0 /\ NameMatches(im, od, name)
             THEN (IF od_ino(im, od) >= os_ninodes THEN EINVAL ELSE od_ino(im, od))
             ELSE LookupScan(im, dir_oi, name, entry_off + OSPFS_DIRENTRY_SIZE)

ospfs_dir_lookup(im, ins, dir, name) ==
    IF Len(name) > OSPFS_MAXNAMELEN THEN ENAMETOOLONG
    ELSE LookupScan(im, ins[dir], name, 0)

\* The search loop of ospfs_unlink: where it stops and the last entry it
\* looked at.
RECURSIVE UnlinkScan(_, _, _, _, _)
UnlinkScan(im, dir_oi, name, entry_off, od) ==
    IF entry_off >= dir_oi.oi_size THEN [entry_off |-> entry_off, od |-> od]
    ELSE LET e == ospfs_inode_data(im, dir_oi, entry_off)
         IN  IF od_ino(im, e) > 0 /\ NameMatches(im, e, name)
             THEN [entry_off |-> entry_off, od |-> e]
             ELSE UnlinkScan(im, dir_oi, name,
                             entry_off + OSPFS_DIRENTRY_SIZE, e)

\* An unlink that clears the first byte of the name of the entry it found as
\* well.
unlink_wipes_name(im, ins, dir, name, ino) ==
    LET scan == UnlinkScan(im, ins[dir], name, 0, 0)
    IN  IF scan.entry_off = ins[dir].oi_size THEN FsRet(im, ins, ENOENT)
        ELSE FsRet(Poke(PokeWord(im, scan.od, 0), scan.od + 4, 0),
                   [ins EXCEPT ![ino].oi_nlink = Dec32(@)], 0)

\* An unlink that leaves the entry it found in place.
unlink_keeps_entry(im, ins, dir, name, ino) ==
    FsRet(im, [ins EXCEPT ![ino].oi_nlink = Dec32(@)], 0)

\* 'ino' is dentry->d_inode->i_ino, 'dir' the parent directory's inode.
ospfs_unlink(im, ins, dir, name, ino) ==
    LET scan == UnlinkScan(im, ins[dir], name, 0, 0)
    IN  IF scan.entry_off = ins[dir].oi_size THEN FsRet(im, ins, ENOENT)
        ELSE FsRet(PokeWord(im, scan.od, 0),
                   [ins EXCEPT ![ino].oi_nlink = Dec32(@)], 0)


\* ospfs_link after create_blank_direntry returned 'blank'; src_ino is
\* src_dentry->d_inode->i_ino.
LinkEntry(blank, ins, dir, name, src_ino) ==
    IF blank.err < 0
    THEN FsRet(blank.img, [ins EXCEPT ![dir] = blank.oi], blank.err)
    ELSE FsRet(PokeWord(SetName(blank.img, blank.od, name), blank.od, src_ino),
               [[ins EXCEPT ![dir] = blank.oi]
                    EXCEPT ![src_ino].oi_nlink = Inc32(@)], 0)

ospfs_link(im, ins, dir, name, src_ino) ==
    IF Len(name) > OSPFS_MAXNAMELEN THEN FsRet(im, ins, ENAMETOOLONG)
    ELSE IF find_direntry(im, ins[dir], name).found
    THEN FsRet(im, ins, EEXIST)
    ELSE LinkEntry(create_blank_direntry(im, ins[dir]), ins, dir, name, src_ino)

(***************************************************************************)
(* Symbolic links.  A symlink inode keeps its text, NUL-terminated, in     *)
(* oi_symlink[0 .. OSPFS_MAXSYMLINKLEN].  The record keeps the buffer as a *)
(* field of its own, next to the mode and the block pointers it shares     *)
(* bytes with in the image: the runs that make symbolic links read no      *)
(* file's block pointers.                                                  *)
(***************************************************************************)
\* "oi_symlink[len] = symname[len]" for the text, then the NUL.
StoreText(buf, symname) ==
    [k \in 0..OSPFS_MAXSYMLINKLEN |->
        IF k < Len(symname) THEN symname[k + 1]
        ELSE IF k = Len(symname) THEN 0
        ELSE buf[k]]

\* ospfs_symlink after create_blank_direntry returned 'blank', with the
\* free inode entry_ino found before.
SymlinkEntry(blank, ins, dir, name, symname, entry_ino) ==
    IF blank.err < 0
    THEN [img |-> blank.img, inodes |-> [ins EXCEPT ![dir] = blank.oi],
          r |-> blank.err, ino |-> 0]
    ELSE [img |-> PokeWord(SetName(blank.img, blank.od, name), blank.od,
                           entry_ino),
          inodes |-> [[ins EXCEPT ![dir] = blank.oi]
                         EXCEPT ![entry_ino] =
                             [@ EXCEPT !.oi_size = Len(symname),
                                       !.oi_ftype = OSPFS_FTYPE_SYMLINK,
                                       !.oi_nlink = 1,
                                       !.oi_symlink = StoreText(@, symname)]],
          r |-> 0, ino |-> entry_ino]

\* The scan for a free inode starts at inode 0.
ospfs_symlink(im, ins, dir, name, symname) ==
    IF Len(symname) > OSPFS_MAXSYMLINKLEN \/ Len(name) > OSPFS_MAXSYMLINKLEN
    THEN [img |-> im, inodes |-> ins, r |-> ENAMETOOLONG, ino |-> 0]
    ELSE IF find_direntry(im, ins[dir], name).found
    THEN [img |-> im, inodes |-> ins, r |-> EEXIST, ino |-> 0]
    ELSE IF FreeInodeScan(ins, 0) = os_ninodes
    THEN [img |-> im, inodes |-> ins, r |-> ENOSPC, ino |-> 0]
    ELSE SymlinkEntry(create_blank_direntry(im, ins[dir]), ins, dir, name,
                      symname, FreeInodeScan(ins, 0))

\* "root?"
Prefix == <<114, 111, 111, 116, 63>>

\* The first index from 'at' on at which the buffer holds 'c', or
\* OSPFS_MAXSYMLINKLEN + 1 when the scan leaves the buffer.
RECURSIVE ScanFor(_, _, _)
ScanFor(buf, at, c) ==
    IF at > OSPFS_MAXSYMLINKLEN THEN at
    ELSE IF buf[at] = c THEN at
    ELSE ScanFor(buf, at + 1, c)

\* The bytes buf[start .. end].
Segment(buf, start, end) == [k \in 1..(end - start + 1) |-> buf[start + k - 1]]

\* follow_link from 'start' on, copying up to the byte before 'endchar'.
\* A scan that leaves the buffer reads memory that is not the link's:
\* overrun.
FollowFrom(buf, start, endchar) ==
    IF ScanFor(buf, start, endchar) > OSPFS_MAXSYMLINKLEN
    THEN [overrun |-> TRUE, link |-> <<>>]
    ELSE [overrun |-> FALSE,
          link |-> Segment(buf, start, ScanFor(buf, start, endchar) - 1)]

\* A follow_link that hands back the link's text as it is stored.
follow_verbatim(oi, uid) == FollowFrom(oi.oi_symlink, 0, 0)

\* ospfs_follow_link: the path handed to nd_set_link for a caller with the
\* given uid.
ospfs_follow_link(oi, uid) ==
    IF \E idx \in 0..4 : Prefix[idx + 1] # oi.oi_symlink[idx]
    THEN FollowFrom(oi.oi_symlink, 0, 0)
    ELSE IF uid = 0 THEN FollowFrom(oi.oi_symlink, 5, 58)
    ELSE IF ScanFor(oi.oi_symlink, 5, 58) > OSPFS_MAXSYMLINKLEN
    THEN [overrun |-> TRUE, link |-> <<>>]
    ELSE FollowFrom(oi.oi_symlink, ScanFor(oi.oi_symlink, 5, 58) + 1, 0)


(***************************************************************************)
(* Directory listing.  filldir is the consumer's callback: it takes 'room' *)
(* entries and refuses the next one.  An emitted entry is the record of    *)
(* filldir's arguments.                                                    *)
(***************************************************************************)
Dot == <<46>>
DotDot == <<46, 46>>

Entry(name, f_pos, ino, type) ==
    [name |-> name, f_pos |-> f_pos, ino |-> ino, type |-> type]

\* The switch on entry_oi->oi_ftype.
DType(ftype) ==
    IF ftype = OSPFS_FTYPE_REG THEN DT_REG
    ELSE IF ftype = OSPFS_FTYPE_DIR THEN DT_DIR
    ELSE DT_LNK

\* The loop over the actual entries.  An od_ino that is no inode number
\* makes ospfs_inode return a null pointer, which the switch dereferences.
RECURSIVE ReaddirLoop(_, _, _, _, _, _)
ReaddirLoop(im, ins, dir_oi, f_pos, room, out) ==
    LET entry_off == (f_pos - 2) * OSPFS_DIRENTRY_SIZE
        od == ospfs_inode_data(im, dir_oi, entry_off)
    IN  IF ospfs_inode_blockno(im, dir_oi, entry_off) = 0
        THEN [out |-> out, f_pos |-> f_pos, r |-> 1]
        ELSE IF od_ino(im, od) = 0
        THEN ReaddirLoop(im, ins, dir_oi, f_pos + 1, room, out)
        ELSE IF od_ino(im, od) >= os_ninodes
        THEN [out |-> out, f_pos |-> f_pos, r |-> OOPS]
        ELSE IF room = 0
        THEN [out |-> out, f_pos |-> f_pos, r |-> 0]
        ELSE ReaddirLoop(im, ins, dir_oi, f_pos + 1, room - 1,
                         Append(out, Entry(EntryName(im, od), f_pos,
                                           od_ino(im, od),
                                           DType(ins[od_ino(im, od)].oi_ftype))))

\* From f_pos == 1 on: "..", whose inode is the parent's.
ReaddirDotDot(im, ins, dir, parent, f_pos, room, out) ==
    IF f_pos # 1 THEN ReaddirLoop(im, ins, ins[dir], f_pos, room, out)
    ELSE IF room = 0 THEN [out |-> out, f_pos |-> f_pos, r |-> 0]
    ELSE ReaddirLoop(im, ins, ins[dir], f_pos + 1, room - 1,
                     Append(out, Entry(DotDot, f_pos, parent, DT_DIR)))

\* ospfs_dir_readdir: the entries handed to filldir and accepted, the
\* cursor saved in filp->f_pos and the return value.
ospfs_dir_readdir(im, ins, dir, parent, f_pos, room) ==
    IF f_pos # 0 THEN ReaddirDotDot(im, ins, dir, parent, f_pos, room, <<>>)
    ELSE IF room = 0 THEN [out |-> <<>>, f_pos |-> f_pos, r |-> 0]
    ELSE ReaddirDotDot(im, ins, dir, parent, f_pos + 1, room - 1,
                       <<Entry(Dot, f_pos, dir, DT_DIR)>>)


(***************************************************************************)
(* File I/O.                                                               *)
(***************************************************************************)
Min(a, b) == IF a < b THEN a ELSE b

\* The copy loop of ospfs_write.  'amount' bytes of 'buf' are written so
\* far and the file position is f_pos.  Returns the image, the bytes
\* written, the position and retval.
RECURSIVE WriteLoop(_, _, _, _, _, _)
WriteLoop(im, oi, buf, amount, f_pos, init_offset) ==
    LET blockno == ospfs_inode_blockno(im, oi, f_pos)
        data == ospfs_block(blockno)
        n == Min(Len(buf) - amount, OSPFS_BLKSIZE)
    IN  IF amount >= Len(buf)
        THEN [img |-> im, amount |-> amount, f_pos |-> f_pos, retval |-> 0]
        ELSE IF blockno = 0
        THEN [img |-> im, amount |-> amount, f_pos |-> f_pos, retval |-> EIO]
        ELSE WriteLoop(PokeBytes(im, data + init_offset,
                                 SubSeq(buf, amount + 1, amount + n)),
                       oi, buf, amount + n, f_pos + n, 0)

\* ospfs_write returns the image, the inode, the return value r and the
\* file position.  WriteSized: after the size check, with c what change_size
\* returned (or the file as it was, when it was not called).
WriteCopied(c, w) ==
    [img |-> w.img, oi |-> c.oi,
     r |-> IF w.retval >= 0 THEN w.amount ELSE w.retval,
     f_pos |-> w.f_pos]

WriteSized(c, buf, f_pos) ==
    IF c.r < 0
    THEN [img |-> c.img, oi |-> c.oi, r |-> c.r, f_pos |-> f_pos]
    ELSE WriteCopied(c, WriteLoop(c.img, c.oi, buf, 0, f_pos,
                                  f_pos % OSPFS_BLKSIZE))

\* ospfs_write with *f_pos settled (O_APPEND applied).
WriteAt(im, oi, buf, f_pos) ==
    WriteSized(IF Len(buf) + f_pos >= oi.oi_size
               THEN change_size(im, oi, Len(buf) + f_pos)
               ELSE Ret(im, oi, 0),
               buf, f_pos)

\* A write that starts at the given position whatever the flags are.
write_at_pos(im, oi, buf, pos, append) == WriteAt(im, oi, buf, pos)

ospfs_write(im, oi, buf, pos, append) ==
    WriteAt(im, oi, buf, IF append THEN oi.oi_size ELSE pos)

\* The copy loop of ospfs_read: 'out' is what has been copied to the user
\* buffer so far.
RECURSIVE ReadLoop(_, _, _, _, _)
ReadLoop(im, oi, count, out, f_pos) ==
    LET amount == Len(out)
        blockno == ospfs_inode_blockno(im, oi, f_pos)
        data == ospfs_block(blockno)
        n == Min(count - amount, OSPFS_BLKSIZE)
    IN  IF amount >= count
        THEN [out |-> out, f_pos |-> f_pos, retval |-> 0]
        ELSE IF blockno = 0
        THEN [out |-> out, f_pos |-> f_pos, retval |-> EIO]
        ELSE ReadLoop(im, oi, count,
                      out \o [i \in 1..n |-> Peek(im, data + (i - 1))],
                      f_pos + n)

\* ospfs_read returns the bytes copied to the user buffer, the return
\* value r and the file position.
ReadCopied(rd) ==
    [out |-> rd.out,
     r |-> IF rd.retval >= 0 THEN Len(rd.out) ELSE rd.retval,
     f_pos |-> rd.f_pos]

\* oi_size - pos in uint32_t wraps when pos > oi_size, to a value above
\* every count.
ospfs_read(im, oi, count, pos) ==
    ReadCopied(ReadLoop(im, oi,
                        IF pos > oi.oi_size THEN count
                        ELSE Min(count, oi.oi_size - pos),
                        <<>>, pos))

\* ospfs_notify_change: attr.valid_size is (ia_valid & ATTR_SIZE),
\* attr.valid_mode is (ia_valid & ATTR_MODE).  NotifyMode: after the size
\* part returned c.
NotifyMode(c, attr) ==
    IF c.r < 0 THEN c
    ELSE IF attr.valid_mode
    THEN Ret(c.img, [c.oi EXCEPT !.oi_mode = attr.mode], 0)
    ELSE c

\* A notify_change that stores the mode before it looks at the size.
notify_mode_first(im, oi, attr) ==
    IF attr.valid_size /\ oi.oi_ftype = OSPFS_FTYPE_DIR
    THEN Ret(im, IF attr.valid_mode THEN [oi EXCEPT !.oi_mode = attr.mode]
                 ELSE oi, EPERM)
    ELSE NotifyMode(IF attr.valid_size THEN change_size(im, oi, attr.size)
                    ELSE Ret(im, oi, 0),
                    attr)

ospfs_notify_change(im, oi, attr) ==
    IF attr.valid_size /\ oi.oi_ftype = OSPFS_FTYPE_DIR
    THEN Ret(im, oi, EPERM)
    ELSE NotifyMode(IF attr.valid_size THEN change_size(im, oi, attr.size)
                    ELSE Ret(im, oi, 0),
                    attr)


(***************************************************************************)
(* The initial image: an empty root directory; the boot sector, the        *)
(* superblock, the bitmap block and the inode table block are in use and   *)
(* every other block is free.                                              *)
(***************************************************************************)
ZeroInode ==
    [oi_size |-> 0, oi_ftype |-> OSPFS_FTYPE_REG, oi_nlink |-> 0, oi_mode |-> 0,
     oi_direct |-> [k \in 0..(OSPFS_NDIRECT - 1) |-> 0],
     oi_indirect |-> 0, oi_indirect2 |-> 0,
     oi_symlink |-> [k \in 0..OSPFS_MAXSYMLINKLEN |-> 0]]

RootInode ==
    [ZeroInode EXCEPT !.oi_ftype = OSPFS_FTYPE_DIR, !.oi_nlink = 1,
                      !.oi_mode = 493]

RECURSIVE FreeBits(_, _)
FreeBits(byteno, k) ==
    IF k = 8 THEN 0
    ELSE (IF byteno * 8 + k >= FirstDataBlock /\ byteno * 8 + k < os_nblocks
          THEN Pow2(k) ELSE 0) + FreeBits(byteno, k + 1)

InitImage ==
    [blockno \in 0..(os_nblocks - 1) |->
        [x \in 0..(OSPFS_BLKSIZE - 1) |->
            IF blockno = OSPFS_FREEMAP_BLK THEN FreeBits(x, 0) ELSE 0]]

InitInodes ==
    [i \in 0..(os_ninodes - 1) |->
        IF i = OSPFS_ROOT_INO THEN RootInode ELSE ZeroInode]

NoAttr == [valid_size |-> FALSE, size |-> 0, valid_mode |-> FALSE, mode |-> 0]

\* The bytes of the bitmap that cover blocks 0 .. os_nblocks - 1.
Freemap(im) ==
    [i \in 1..((os_nblocks + 7) \div 8) |->
        im[OSPFS_FREEMAP_BLK][i - 1]]

NoOp ==
    [op |-> "init", ino |-> 0, name |-> <<>>, mode |-> 0, attr |-> NoAttr,
     pos |-> 0, count |-> 0, append |-> FALSE, buf |-> <<>>,
     ret |-> 0, f_pos |-> 0, pre_oi |-> ZeroInode, pre_map |-> <<>>,
     text |-> <<>>, uid |-> 0, link |-> <<>>, pre_dir |-> {},
     emitted |-> <<>>]

\* The dentries a successful create or symlink has instantiated and that no
\* unlink has dropped since: name -> inode number, -1 for none.
NoDentries == [name \in Names \cup DirNames |-> -1]

Init ==
    /\ ospfs_data = InitImage
    /\ inodes = InitInodes
    /\ last = NoOp
    /\ nops = 0
    /\ dcache = NoDentries

\* The attribute sets handed to notify_change.
Attrs ==
    { [valid_size |-> TRUE, size |-> s, valid_mode |-> FALSE, mode |-> 0] :
        s \in Sizes }
    \cup { [valid_size |-> vs, size |-> 8, valid_mode |-> TRUE, mode |-> 384] :
        vs \in BOOLEAN }

\* The regular files a caller can hold open: those a name resolves to.
OpenFiles ==
    { i \in 2..(os_ninodes - 1) :
        /\ inodes[i].oi_ftype = OSPFS_FTYPE_REG
        /\ \E name \in Names :
              ospfs_dir_lookup(ospfs_data, inodes, OSPFS_ROOT_INO, name) = i }

(***************************************************************************)
(* The operations.                                                         *)
(***************************************************************************)
\* d_instantiate at the end of a successful create or symlink binds the
\* name's dentry to the new inode; a successful unlink drops the name's
\* dentry.
Instantiated(rec) ==
    IF rec.op \in {"create", "symlink"} /\ rec.ret = 0
    THEN [dcache EXCEPT ![rec.name] = rec.ino]
    ELSE IF rec.op = "unlink" /\ rec.ret = 0
    THEN [dcache EXCEPT ![rec.name] = -1]
    ELSE dcache

\* No call follows one that faulted in the kernel.
Callable == nops < MaxOps /\ last.ret # OOPS

\* The step that records the outcome of a call: the image and the inode
\* table it leaves, and in 'last' the call and what it returned.
Done(im, ins, rec) ==
    /\ Callable
    /\ ospfs_data' = im
    /\ inodes' = ins
    /\ last' = rec
    /\ nops' = nops + 1
    /\ dcache' = Instantiated(rec)

\* The call's record before it runs: the inode it is about and the bitmap.
Call(op, ino) ==
    [NoOp EXCEPT !.op = op, !.ino = ino, !.pre_oi = inodes[ino],
                 !.pre_map = Freemap(ospfs_data),
                 !.pre_dir = DirEntries(ospfs_data, inodes[OSPFS_ROOT_INO])]

Created(c, name, mode) ==
    Done(c.img, c.inodes,
         [Call("create", OSPFS_ROOT_INO) EXCEPT !.name = name, !.mode = mode,
                                                !.ino = c.ino, !.ret = c.r])

Create(name, mode) ==
    Created(ospfs_create(ospfs_data, inodes, OSPFS_ROOT_INO, name, mode),
            name, mode)

Unlinked(u, name, ino) ==
    Done(u.img, u.inodes,
         [Call("unlink", ino) EXCEPT !.name = name, !.ret = u.r])

\* The VFS calls unlink for a name that lookup has resolved to inode ino.
UnlinkIno(name, ino) ==
    /\ ino > 0
    /\ Unlinked(ospfs_unlink(ospfs_data, inodes, OSPFS_ROOT_INO, name, ino),
                name, ino)

Unlink(name) ==
    UnlinkIno(name,
              ospfs_dir_lookup(ospfs_data, inodes, OSPFS_ROOT_INO, name))

Notified(c, ino, attr) ==
    Done(c.img, [inodes EXCEPT ![ino] = c.oi],
         [Call("notify_change", ino) EXCEPT !.attr = attr, !.ret = c.r])

\* What a notify_change call can come to: what the handler returns, and,
\* where its change_size stores outside the image, the fault at that store.
NotifyOutcomes(im, oi, attr) ==
    {ospfs_notify_change(im, oi, attr)}
    \cup (IF /\ attr.valid_size
              /\ oi.oi_ftype # OSPFS_FTYPE_DIR
              /\ ospfs_size2nblocks(oi.oi_size)
                    > ospfs_size2nblocks(attr.size)
          THEN { c \in {change_size_fault(im, oi, attr.size)} : c.r = OOPS }
          ELSE {})

NotifyChange(ino, attr) ==
    /\ Callable
    /\ \E c \in NotifyOutcomes(ospfs_data, inodes[ino], attr) :
          Notified(c, ino, attr)

Written(w, ino, buf, f_pos, append) ==
    Done(w.img, [inodes EXCEPT ![ino] = w.oi],
         [Call("write", ino) EXCEPT !.buf = buf, !.count = Len(buf),
                                    !.append = append, !.pos = f_pos,
                                    !.ret = w.r, !.f_pos = w.f_pos])

Write(ino, buf, pos, append) ==
    Written(ospfs_write(ospfs_data, inodes[ino], buf, pos, append), ino, buf,
            IF append THEN inodes[ino].oi_size ELSE pos, append)

ReadDone(rd, ino, count, pos) ==
    Done(ospfs_data, inodes,
         [Call("read", ino) EXCEPT !.buf = rd.out, !.count = count,
                                   !.pos = pos, !.ret = rd.r,
                                   !.f_pos = rd.f_pos])

Read(ino, count, pos) ==
    ReadDone(ospfs_read(ospfs_data, inodes[ino], count, pos), ino, count, pos)

\* unlink through a dentry that create or symlink instantiated.
UnlinkCached(name) ==
    /\ dcache[name] >= 0
    /\ Unlinked(ospfs_unlink(ospfs_data, inodes, OSPFS_ROOT_INO, name,
                             dcache[name]), name, dcache[name])

Linked(l, name, src_ino) ==
    Done(l.img, l.inodes,
         [Call("link", src_ino) EXCEPT !.name = name, !.ret = l.r])

Link(name, src_ino) ==
    Linked(ospfs_link(ospfs_data, inodes, OSPFS_ROOT_INO, name, src_ino),
           name, src_ino)

\* The inodes a positive dentry refers to: those a name resolves to and
\* those of the instantiated dentries.
Dentries ==
    { i \in 0..(os_ninodes - 1) :
        \E name \in Names :
           \/ dcache[name] = i
           \/ /\ i > 0
              /\ ospfs_dir_lookup(ospfs_data, inodes, OSPFS_ROOT_INO, name) = i }

Symlinked(c, name, symname) ==
    Done(c.img, c.inodes,
         [Call("symlink", OSPFS_ROOT_INO) EXCEPT !.name = name,
                                                 !.text = symname,
                                                 !.ino = c.ino, !.ret = c.r])

Symlink(name, symname) ==
    Symlinked(ospfs_symlink(ospfs_data, inodes, OSPFS_ROOT_INO, name, symname),
              name, symname)

\* What a follow_link whose scan left the buffer can hand back: the scan
\* reads whatever lies behind the inode, so the path is any string, or the
\* read faults.
Overrun ==
    { [link |-> <<>>, ret |-> OOPS] }
    \cup { [link |-> l, ret |-> 0] : l \in { <<>>, <<97>> } }

Followed(f, ino, uid) ==
    \E out \in (IF f.overrun THEN Overrun
                ELSE { [link |-> f.link, ret |-> 0] }) :
        Done(ospfs_data, inodes,
             [Call("follow_link", ino) EXCEPT !.uid = uid, !.link = out.link,
                                              !.ret = out.ret])

FollowLink(ino, uid) == Followed(ospfs_follow_link(inodes[ino], uid), ino, uid)

\* The symlinks a caller can follow.
Symlinks ==
    { i \in Dentries : inodes[i].oi_ftype = OSPFS_FTYPE_SYMLINK }

Next ==
    \/ \E name \in Names, mode \in Modes : Create(name, mode)
    \/ \E name \in Names : Unlink(name)
    \/ \E ino \in OpenFiles \cup {OSPFS_ROOT_INO}, attr \in Attrs :
          NotifyChange(ino, attr)
    \/ \E ino \in OpenFiles, buf \in Bufs, pos \in Positions,
          append \in BOOLEAN : Write(ino, buf, pos, append)
    \/ \E ino \in OpenFiles, count \in Counts, pos \in Positions :
          Read(ino, count, pos)

Spec == Init /\ [][Next]_vars

\* The namespace operations alone.
NsNext ==
    \/ \E name \in Names, mode \in Modes : Create(name, mode)
    \/ \E name \in Names : Unlink(name)
    \/ \E name \in Names : UnlinkCached(name)
    \/ \E name \in Names, src_ino \in Dentries : Link(name, src_ino)
    \/ \E name \in Names, symname \in Texts : Symlink(name, symname)

NsSpec == Init /\ [][NsNext]_vars

\* A listing goes on from the cursor the readdir before it saved, when that
\* call was the last one and did not reach the end; else it starts at 0.
Listing == last.op = "readdir" /\ last.ret = 0

ReaddirDone(rd, room, f_pos, emitted) ==
    Done(ospfs_data, inodes,
         [Call("readdir", OSPFS_ROOT_INO) EXCEPT !.count = room, !.pos = f_pos,
                                                 !.f_pos = rd.f_pos,
                                                 !.ret = rd.r,
                                                 !.emitted = emitted \o rd.out])

ReaddirFrom(room, f_pos, emitted) ==
    ReaddirDone(ospfs_dir_readdir(ospfs_data, inodes, OSPFS_ROOT_INO,
                                  OSPFS_ROOT_INO, f_pos, room),
                room, f_pos, emitted)

Readdir(room) ==
    ReaddirFrom(room, IF Listing THEN last.f_pos ELSE 0,
                IF Listing THEN last.emitted ELSE <<>>)

\* A directory of four entries, two full blocks: "a" created and linked
\* three times.
Linked4(c) ==
    ospfs_link(c.img, c.inodes, OSPFS_ROOT_INO, <<97, 98>>, c.ino)

Linked3(c, l) ==
    Linked4([img |-> l.img, inodes |-> l.inodes, ino |-> c.ino])

Linked2(c, l) ==
    Linked3(c, ospfs_link(l.img, l.inodes, OSPFS_ROOT_INO, <<97, 97>>, c.ino))

FourEntries(c) ==
    Linked2(c, ospfs_link(c.img, c.inodes, OSPFS_ROOT_INO, <<98>>, c.ino))

DirInit ==
    /\ ospfs_data
          = FourEntries(ospfs_create(InitImage, InitInodes, OSPFS_ROOT_INO,
                                     <<97>>, 420)).img
    /\ inodes
          = FourEntries(ospfs_create(InitImage, InitInodes, OSPFS_ROOT_INO,
                                     <<97>>, 420)).inodes
    /\ last = NoOp
    /\ nops = 0
    /\ dcache = [NoDentries EXCEPT ![<<97>>] = 2]

\* The files a name of the listing runs resolves to.
DirFiles ==
    { i \in 2..(os_ninodes - 1) :
        \E name \in DirNames :
           ospfs_dir_lookup(ospfs_data, inodes, OSPFS_ROOT_INO, name) = i }

\* A size of NDIRECT blocks and a half, and one of more blocks than the
\* image has free.
GrowAttr == [valid_size |-> TRUE, size |-> 40, valid_mode |-> FALSE, mode |-> 0]
FillAttr == [valid_size |-> TRUE, size |-> 144, valid_mode |-> FALSE, mode |-> 0]

\* The namespace operations, the growth of a file and the listing of the
\* directory.
DirNext ==
    \/ \E name \in DirNames, mode \in Modes :
          nops < DirOps /\ Create(name, mode)
    \/ \E name \in DirNames, src_ino \in DirFiles :
          nops < DirOps /\ Link(name, src_ino)
    \/ \E name \in DirNames : nops < DirOps /\ Symlink(name, <<120>>)
    \/ \E name \in DirNames : nops < DirOps /\ Unlink(name)
    \/ \E ino \in DirFiles, attr \in {GrowAttr, FillAttr} :
          nops < DirOps /\ NotifyChange(ino, attr)
    \/ \E room \in Rooms : nops < DirOps /\ Readdir(room)

DirSpec == DirInit /\ [][DirNext]_vars

\* One file, grown, written at the start and at its first indirect block,
\* and shrunk.
TruncInit ==
    /\ ospfs_data = ospfs_create(InitImage, InitInodes, OSPFS_ROOT_INO,
                                 <<97>>, 420).img
    /\ inodes = ospfs_create(InitImage, InitInodes, OSPFS_ROOT_INO,
                             <<97>>, 420).inodes
    /\ last = NoOp
    /\ nops = 0
    /\ dcache = [NoDentries EXCEPT ![<<97>>] = 2]

TruncAttrs ==
    { [valid_size |-> TRUE, size |-> s, valid_mode |-> FALSE, mode |-> 0] :
        s \in TruncSizes }

TruncNext ==
    \/ \E ino \in OpenFiles, attr \in TruncAttrs : NotifyChange(ino, attr)
    \/ \E ino \in OpenFiles, buf \in TruncBufs, pos \in TruncPositions :
          Write(ino, buf, pos, FALSE)

TruncSpec == TruncInit /\ [][TruncNext]_vars

\* Two files, "a" and "b", grown and shrunk in turn.
Second(c) == ospfs_create(c.img, c.inodes, OSPFS_ROOT_INO, <<98>>, 420)

PairInit ==
    /\ ospfs_data = Second(ospfs_create(InitImage, InitInodes,
                                        OSPFS_ROOT_INO, <<97>>, 420)).img
    /\ inodes = Second(ospfs_create(InitImage, InitInodes,
                                    OSPFS_ROOT_INO, <<97>>, 420)).inodes
    /\ last = NoOp
    /\ nops = 0
    /\ dcache = [NoDentries EXCEPT ![<<97>>] = 2, ![<<98>>] = 3]

PairAttrs ==
    { [valid_size |-> TRUE, size |-> s, valid_mode |-> FALSE, mode |-> 0] :
        s \in PairSizes }

PairNext ==
    \E ino \in OpenFiles, attr \in PairAttrs : NotifyChange(ino, attr)

PairSpec == PairInit /\ [][PairNext]_vars

\* add_block in the order of its statements, on the files "a" and "b".  A
\* step in progress is kept in 'last': ino is the inode, count the block
\* count n it started from, buf the array allocated[] and pos the part of
\* the function reached: 1 after the allocations, 2 after the zeroing, 3
\* after the stores that link the blocks, 0 after the return.
InStep == last.op = "add_block" /\ last.pos # 0

StepAt(ino, n, allocated, pos, ret) ==
    [NoOp EXCEPT !.op = "add_block", !.ino = ino, !.count = n,
                 !.buf = allocated, !.pos = pos, !.ret = ret]

StepTo(im, oi, rec) ==
    /\ ospfs_data' = im
    /\ inodes' = [inodes EXCEPT ![rec.ino] = oi]
    /\ last' = rec
    /\ UNCHANGED dcache

\* "oi->oi_direct[0] = allocate_block()" of a file without blocks, a being
\* what allocate_block returned.
StepFirst(a, ino) ==
    StepTo(a.img, [inodes[ino] EXCEPT !.oi_direct[0] = a.blk],
           StepAt(ino, 0, <<a.blk, 0, 0>>, IF a.blk = 0 THEN 0 ELSE 1,
                  IF a.blk = 0 THEN ENOSPC ELSE 0))

\* The allocation loop of a file of n > 0 blocks, ended as 'got'.
StepAllocated(got, ino, n) ==
    StepTo(got.img, inodes[ino],
           StepAt(ino, n, got.allocated, IF got.ok THEN 1 ELSE 0,
                  IF got.ok THEN 0 ELSE ENOSPC))

StepAllocate(ino, n) ==
    /\ Callable
    /\ ~InStep
    /\ nops' = nops + 1
    /\ IF n = 0 THEN StepFirst(allocate_block(ospfs_data), ino)
       ELSE StepAllocated(AllocLoop(ospfs_data, <<0, 0, 0>>, 0, NewBlocks(n)),
                          ino, n)

StepZero ==
    /\ InStep
    /\ last.pos = 1
    /\ UNCHANGED nops
    /\ StepTo(ZeroAll(ospfs_data, last.buf, 0,
                      IF last.count = 0 THEN 1 ELSE NewBlocks(last.count)),
              inodes[last.ino], [last EXCEPT !.pos = 2])

StepLinked(linked) ==
    StepTo(linked.img, linked.oi, [last EXCEPT !.pos = 3])

\* The first block was stored in oi_direct[0] when it was allocated.
StepLink ==
    /\ InStep
    /\ last.pos = 2
    /\ UNCHANGED nops
    /\ IF last.count = 0
       THEN StepTo(ospfs_data, inodes[last.ino], [last EXCEPT !.pos = 3])
       ELSE StepLinked(LinkBlocks(ospfs_data, inodes[last.ino], last.count,
                                  last.buf, NewBlocks(last.count)))

StepSize ==
    /\ InStep
    /\ last.pos = 3
    /\ UNCHANGED nops
    /\ StepTo(ospfs_data,
              [inodes[last.ino] EXCEPT !.oi_size = @ + OSPFS_BLKSIZE],
              [last EXCEPT !.pos = 0])

StepNext ==
    \/ \E ino \in OpenFiles :
          StepAllocate(ino, ospfs_size2nblocks(inodes[ino].oi_size))
    \/ StepZero
    \/ StepLink
    \/ StepSize

StepSpec == PairInit /\ [][StepNext]_vars

\* An image of 264 blocks: its bitmap takes blocks 2, 3 and 4 and its inode
\* table block 5.  allocate_block and free_block touch the bitmap alone, and
\* of this image only its first os_nblocks blocks, which hold the bitmap,
\* are kept.
map_super == [os_nblocks |-> 264, os_firstinob |-> 5]

\* Byte 'byteno' of the bitmap region when the blocks in 'free' are free and
\* every other block is in use, from bit k on.
RECURSIVE MapBits(_, _, _)
MapBits(free, byteno, k) ==
    IF k = 8 THEN 0
    ELSE (IF byteno * 8 + k \in free THEN Pow2(k) ELSE 0)
            + MapBits(free, byteno, k + 1)

MapImage(free) ==
    [blockno \in 0..(os_nblocks - 1) |->
        [x \in 0..(OSPFS_BLKSIZE - 1) |->
            IF blockno \in OSPFS_FREEMAP_BLK..(map_super.os_firstinob - 1)
            THEN MapBits(free,
                         (blockno - OSPFS_FREEMAP_BLK) * OSPFS_BLKSIZE + x, 0)
            ELSE 0]]

MapInit ==
    /\ \E free \in SUBSET MapFree : ospfs_data = MapImage(free)
    /\ inodes = InitInodes
    /\ last = NoOp
    /\ nops = 0
    /\ dcache = NoDentries

Allocated(a) ==
    Done(a.img, inodes,
         [NoOp EXCEPT !.op = "allocate_block", !.ret = a.blk])

Allocate == Allocated(allocate_under(ospfs_data, map_super))

Free(blockno) ==
    Done(free_block(ospfs_data, blockno), inodes,
         [NoOp EXCEPT !.op = "free_block", !.pos = blockno])

MapNext ==
    \/ Allocate
    \/ \E blockno \in MapFree : Free(blockno)

MapSpec == MapInit /\ [][MapNext]_vars

\* The texts handed to symlink before follow_link: the conditional links
\* "root?A:B" with A and B non-empty strings of at most MaxPart bytes; texts
\* that are no conditional links: "a", "root", "rootx", "b/root?"; and
\* "root?a", a conditional link without its ':'.
Parts == UNION { [1..n -> PartBytes] : n \in 1..MaxPart }

Conditional(A, B) == Prefix \o A \o <<58>> \o B

Plain ==
    { <<97>>, <<114, 111, 111, 116>>, <<114, 111, 111, 116, 120>>,
      <<98, 47>> \o Prefix }

FollowTexts ==
    { Conditional(A, B) : A \in Parts, B \in Parts }
    \cup Plain \cup { Prefix \o <<97>> }

\* One symbolic link is made, and then followed by either caller any number
\* of times.
MakeLink(symname) ==
    /\ Symlinks = {}
    /\ Symlink(<<97>>, symname)

FollowNext ==
    \/ \E symname \in FollowTexts : MakeLink(symname)
    \/ \E ino \in Symlinks, uid \in Uids : FollowLink(ino, uid)

FollowSpec == Init /\ [][FollowNext]_vars


(***************************************************************************)
(* What the properties below speak of.                                     *)
(***************************************************************************)
\* block_of(i, b): the block that holds file block b of the inode.
block_of(im, oi, b) == ospfs_inode_blockno(im, oi, b * OSPFS_BLKSIZE)

\* Bit b of a bitmap is 0: the block is in use.
InUseBit(map, b) == BitOf(map[(b \div 8) + 1], b % 8) = 0

BlocksInUse(map) == { b \in 0..(os_nblocks - 1) : InUseBit(map, b) }

\* Boot sector, superblock, bitmap and inode table.
Metadata(b) == b < FirstDataBlock

Live(ins) == { i \in 1..(os_ninodes - 1) : ins[i].oi_nlink > 0 }

HasBlocks(oi) == oi.oi_ftype \in {OSPFS_FTYPE_REG, OSPFS_FTYPE_DIR}

Pointers(oi) == <<oi.oi_direct, oi.oi_indirect, oi.oi_indirect2>>

\* The single-indirect children of the doubly indirect block that a file of
\* n blocks has started.
Groups(n) ==
    (n - OSPFS_NDIRECT - OSPFS_NINDIRECT + OSPFS_NINDIRECT - 1)
        \div OSPFS_NINDIRECT

\* The index blocks a file of n blocks needs.
IndexNeed(n) ==
    IF n <= OSPFS_NDIRECT THEN 0
    ELSE IF n <= OSPFS_NDIRECT + OSPFS_NINDIRECT THEN 1
    ELSE 2 + Groups(n)

\* The references of the inode's tree, one per data block and index block.
DataRefs(im, oi) ==
    [k \in 1..ospfs_size2nblocks(oi.oi_size) |-> block_of(im, oi, k - 1)]

IndexRefs(im, oi, n) ==
    IF n <= OSPFS_NDIRECT THEN <<>>
    ELSE IF n <= OSPFS_NDIRECT + OSPFS_NINDIRECT THEN <<oi.oi_indirect>>
    ELSE <<oi.oi_indirect, oi.oi_indirect2>>
         \o [k \in 1..Groups(n) |-> BlockWord(im, oi.oi_indirect2, k - 1)]

TreeRefs(im, oi) ==
    IF HasBlocks(oi)
    THEN DataRefs(im, oi) \o IndexRefs(im, oi, ospfs_size2nblocks(oi.oi_size))
    ELSE <<>>

\* How many references to block b the tree holds.
RefCount(refs, b) == Cardinality({ k \in DOMAIN refs : refs[k] = b })

\* The blocks of the tree that are data-area blocks marked in use.
Owned(im, oi) ==
    { b \in FirstDataBlock..(os_nblocks - 1) :
        /\ RefCount(TreeRefs(im, oi), b) > 0
        /\ InUseBit(Freemap(im), b) }

SizeChange(rec) ==
    /\ rec.op = "notify_change"
    /\ rec.attr.valid_size
    /\ rec.pre_oi.oi_ftype = OSPFS_FTYPE_REG

(***************************************************************************)
(* C1.  A change_size that grows a regular file and runs out of free       *)
(* blocks after it has added one or more blocks returns no-space and       *)
(* leaves the inode's size, its block pointers and the bitmap as they were *)
(* before the call.                                                        *)
(***************************************************************************)
C1_GrowFailed ==
    /\ SizeChange(last')
    /\ inodes[last'.ino].oi_size < last'.attr.size
    /\ add_block(ospfs_data, inodes[last'.ino]).r = 0
    /\ last'.ret < 0

C1_GrowFailureRestores ==
    [][C1_GrowFailed =>
          /\ last'.ret = ENOSPC
          /\ inodes'[last'.ino].oi_size = inodes[last'.ino].oi_size
          /\ Pointers(inodes'[last'.ino]) = Pointers(inodes[last'.ino])
          /\ Freemap(ospfs_data') = Freemap(ospfs_data)]_vars

(***************************************************************************)
(* C2.  For every live regular-file or directory inode i and every file    *)
(* block index b < ceil(i.size / B), block_of(i, b) is nonzero, less than  *)
(* nblocks, and marked in use in the bitmap.                               *)
(***************************************************************************)
C2_BlockValid(im, b) ==
    /\ b # 0
    /\ b < os_nblocks
    /\ InUseBit(Freemap(im), b)

C2_FileBlocksValid ==
    \A i \in Live(inodes) :
        HasBlocks(inodes[i]) =>
            \A k \in 1..ospfs_size2nblocks(inodes[i].oi_size) :
                C2_BlockValid(ospfs_data,
                              block_of(ospfs_data, inodes[i], k - 1))

(***************************************************************************)
(* C3.  Every block marked in use in the bitmap is a metadata block or is  *)
(* referenced, as a data or index block, exactly once by exactly one live  *)
(* inode's tree: no block is leaked and no block is shared.                *)
(***************************************************************************)
C3_Refs(b) ==
    { <<i, k>> \in Live(inodes) \X (1..(MaxFileBlocks + OSPFS_NINDIRECT + 2)) :
        /\ k \in DOMAIN TreeRefs(ospfs_data, inodes[i])
        /\ TreeRefs(ospfs_data, inodes[i])[k] = b }

C3_NoLeakNoSharing ==
    \A b \in BlocksInUse(Freemap(ospfs_data)) :
        Metadata(b) \/ Cardinality(C3_Refs(b)) = 1

(***************************************************************************)
(* C4.  A successful write(buf, |buf|, pos) to a regular file followed by  *)
(* read(|buf|, pos) of that file returns exactly buf, for every pos and    *)
(* buf, pos that is not a multiple of B included.                          *)
(***************************************************************************)
C4_ReadAfterWrite ==
    /\ last.op = "write"
    /\ last.ret = Len(last.buf)
    /\ last'.op = "read"
    /\ last'.ino = last.ino
    /\ last'.pos = last.pos
    /\ last'.count = Len(last.buf)

C4_ReadReturnsWritten ==
    [][C4_ReadAfterWrite =>
          /\ last'.ret = Len(last.buf)
          /\ last'.buf = last.buf]_vars

(***************************************************************************)
(* C5.  For a regular file of size S0, a successful change_size to S > S0  *)
(* followed by a successful change_size back to S0 leaves the bitmap and   *)
(* the inode's direct, indirect and indirect2 pointers as they were before *)
(* the grow.                                                               *)
(***************************************************************************)
C5_GrownThenShrunk ==
    /\ SizeChange(last)
    /\ last.ret = 0
    /\ last.attr.size > last.pre_oi.oi_size
    /\ SizeChange(last')
    /\ last'.ino = last.ino
    /\ last'.attr.size = last.pre_oi.oi_size
    /\ last'.ret = 0

C5_GrowShrinkRestores ==
    [][C5_GrownThenShrunk =>
          /\ Freemap(ospfs_data') = last.pre_map
          /\ Pointers(inodes'[last.ino]) = Pointers(last.pre_oi)]_vars

(***************************************************************************)
(* C6.  write(inode, buf, count, pos) changes only the bytes at file       *)
(* offsets [pos, pos + count) of the inode's own data blocks, its size,    *)
(* its index blocks and its bitmap bits: the file's other bytes, the boot  *)
(* sector, the superblock, every other inode's record and every block of   *)
(* another file stay as they were.                                         *)
(***************************************************************************)
\* Byte 'offset' of the file.
C6_FileByte(im, oi, offset) == Peek(im, ospfs_inode_data(im, oi, offset))

C6_OwnBytesKept(ino, pos, count) ==
    \A offset \in 0..(inodes[ino].oi_size - 1) :
        (offset < pos \/ offset >= pos + count) =>
            C6_FileByte(ospfs_data', inodes'[ino], offset)
                = C6_FileByte(ospfs_data, inodes[ino], offset)

C6_OthersKept(ino) ==
    /\ ospfs_data'[0] = ospfs_data[0]
    /\ ospfs_data'[1] = ospfs_data[1]
    /\ \A i \in 0..(os_ninodes - 1) : i # ino => inodes'[i] = inodes[i]
    /\ \A i \in Live(inodes) \ {ino} :
          \A b \in Owned(ospfs_data, inodes[i]) :
              ospfs_data'[b] = ospfs_data[b]

C6_WriteFrame ==
    [][last'.op = "write" =>
          /\ C6_OwnBytesKept(last'.ino, last'.pos, last'.count)
          /\ C6_OthersKept(last'.ino)]_vars

(***************************************************************************)
(* C7.  Growing a freshly created regular file from at most ND blocks to   *)
(* ND + 1 blocks allocates one single-indirect block and stores its number *)
(* in the inode's indirect pointer; block_of(file, ND) is then entry 0 of  *)
(* that block, the newly allocated data block, and not the indirect block  *)
(* itself.                                                                 *)
(***************************************************************************)
C7_GrownToFirstIndirect ==
    /\ SizeChange(last)
    /\ last.ret = 0
    /\ ospfs_size2nblocks(last.pre_oi.oi_size) <= OSPFS_NDIRECT
    /\ last.pre_oi.oi_indirect = 0
    /\ last.pre_oi.oi_indirect2 = 0
    /\ ospfs_size2nblocks(last.attr.size) = OSPFS_NDIRECT + 1

\* Block b was free before the call and is in use after it.
C7_NewlyAllocated(b) ==
    /\ b >= FirstDataBlock
    /\ b < os_nblocks
    /\ ~InUseBit(last.pre_map, b)
    /\ InUseBit(Freemap(ospfs_data), b)

C7_IndirectLinked(oi) ==
    /\ C7_NewlyAllocated(oi.oi_indirect)
    /\ block_of(ospfs_data, oi, OSPFS_NDIRECT)
          = BlockWord(ospfs_data, oi.oi_indirect, 0)
    /\ C7_NewlyAllocated(block_of(ospfs_data, oi, OSPFS_NDIRECT))
    /\ block_of(ospfs_data, oi, OSPFS_NDIRECT) # oi.oi_indirect

C7_FirstIndirectBlock ==
    C7_GrownToFirstIndirect => C7_IndirectLinked(inodes[last.ino])

(***************************************************************************)
(* C8.  After a successful change_size(inode, S) the file owns exactly     *)
(* ceil(S / B) data blocks plus the fewest index blocks that block count   *)
(* needs, counted as in-use bitmap bits: the blocks of its tree that are   *)
(* marked in use are that many, and the call changed the number of in-use  *)
(* bits by the difference between what S and the prior size need.          *)
(***************************************************************************)
C8_Need(size) ==
    ospfs_size2nblocks(size) + IndexNeed(ospfs_size2nblocks(size))

C8_Accounted(oi) ==
    /\ Cardinality(Owned(ospfs_data, oi)) = C8_Need(last.attr.size)
    /\ Cardinality(BlocksInUse(Freemap(ospfs_data)))
          - Cardinality(BlocksInUse(last.pre_map))
       = C8_Need(last.attr.size) - C8_Need(last.pre_oi.oi_size)

C8_ExactBlockCount ==
    (SizeChange(last) /\ last.ret = 0) => C8_Accounted(inodes[last.ino])

(***************************************************************************)
(* C9.  A successful create(dir, name, mode) yields an inode that is a     *)
(* regular file with the given mode, size 0 and nlink 1, also when the     *)
(* slot was used before by a file of nonzero size since unlinked.          *)
(***************************************************************************)
C9_FreshInode(oi, mode) ==
    /\ oi.oi_ftype = OSPFS_FTYPE_REG
    /\ oi.oi_mode = mode
    /\ oi.oi_size = 0
    /\ oi.oi_nlink = 1

C9_CreateInitialisesInode ==
    (last.op = "create" /\ last.ret = 0) =>
        C9_FreshInode(inodes[last.ino], last.mode)

(***************************************************************************)
(* C10.  create(dir, name, mode) with a name longer than MAXNAMELEN        *)
(* returns name-too-long and leaves the image unchanged: the directory's   *)
(* size and entries, every inode's nlink, type and mode, and the bitmap    *)
(* are as before the call.                                                 *)
(***************************************************************************)
C10_Meta(oi) == <<oi.oi_nlink, oi.oi_ftype, oi.oi_mode>>

\* The bytes of the directory's entries.
C10_Entries(im, dir_oi) ==
    [offset \in 0..(dir_oi.oi_size - 1) |-> C6_FileByte(im, dir_oi, offset)]

C10_Unchanged ==
    /\ inodes'[OSPFS_ROOT_INO].oi_size = inodes[OSPFS_ROOT_INO].oi_size
    /\ C10_Entries(ospfs_data', inodes'[OSPFS_ROOT_INO])
          = C10_Entries(ospfs_data, inodes[OSPFS_ROOT_INO])
    /\ \A i \in 0..(os_ninodes - 1) : C10_Meta(inodes'[i]) = C10_Meta(inodes[i])
    /\ Freemap(ospfs_data') = Freemap(ospfs_data)

C10_LongNameRejected ==
    [][(last'.op = "create" /\ Len(last'.name) > OSPFS_MAXNAMELEN) =>
          /\ last'.ret = ENAMETOOLONG
          /\ C10_Unchanged]_vars

(***************************************************************************)
(* C11.  A create that cannot complete for lack of space -- the directory  *)
(* needs a new block and no block is free, or no inode has nlink == 0 --   *)
(* returns no-space, and the directory's size and entries, the inode table *)
(* and the bitmap are as before the call.                                  *)
(***************************************************************************)
\* Every entry of the directory is in use and its last block is full.
C11_DirNeedsBlock(im, dir_oi) ==
    /\ dir_oi.oi_size % OSPFS_BLKSIZE = 0
    /\ \A k \in 0..((dir_oi.oi_size \div OSPFS_DIRENTRY_SIZE) - 1) :
          od_ino(im, EntryAt(im, dir_oi, k)) # 0

C11_NoSpace ==
    \/ /\ C11_DirNeedsBlock(ospfs_data, inodes[OSPFS_ROOT_INO])
       /\ \A b \in 0..(os_nblocks - 1) : InUseBit(Freemap(ospfs_data), b)
    \/ \A i \in 2..(os_ninodes - 1) : inodes[i].oi_nlink # 0

C11_CreateNoSpace ==
    [][(/\ last'.op = "create"
        /\ Len(last'.name) <= OSPFS_MAXNAMELEN
        /\ ~find_direntry(ospfs_data, inodes[OSPFS_ROOT_INO], last'.name).found
        /\ C11_NoSpace) =>
          /\ last'.ret = ENOSPC
          /\ inodes' = inodes
          /\ C10_Entries(ospfs_data', inodes'[OSPFS_ROOT_INO])
                = C10_Entries(ospfs_data, inodes[OSPFS_ROOT_INO])
          /\ Freemap(ospfs_data') = Freemap(ospfs_data)]_vars

(***************************************************************************)
(* C12.  After any sequence of create, link, unlink and symlink calls,     *)
(* those that return an error included, the nlink of every inode other     *)
(* than the root is the number of non-free directory entries whose inode   *)
(* number is that inode.                                                   *)
(***************************************************************************)
C12_EntriesOf(im, dir_oi, i) ==
    Cardinality({ k \in 0..((dir_oi.oi_size \div OSPFS_DIRENTRY_SIZE) - 1) :
                    /\ od_ino(im, EntryAt(im, dir_oi, k)) # 0
                    /\ od_ino(im, EntryAt(im, dir_oi, k)) = i })

C12_LinkCounts ==
    \A i \in (0..(os_ninodes - 1)) \ {OSPFS_ROOT_INO} :
        inodes[i].oi_nlink = C12_EntriesOf(ospfs_data, inodes[OSPFS_ROOT_INO], i)

(***************************************************************************)
(* C13.  A successful symlink(dir, name, text) allocates an inode other    *)
(* than inode 0 and the root, of type symlink, with nlink 1 and size the   *)
(* length of the text, and stores the text in it; lookup(dir, name) then   *)
(* finds a non-free entry bound to that inode.                             *)
(***************************************************************************)
\* The NUL-terminated string the inode's oi_symlink holds.
C13_Text(oi) == Segment(oi.oi_symlink, 0, ScanFor(oi.oi_symlink, 0, 0) - 1)

C13_SymlinkAllocates ==
    (last.op = "symlink" /\ last.ret = 0) =>
        /\ last.ino # 0
        /\ last.ino # OSPFS_ROOT_INO
        /\ inodes[last.ino].oi_ftype = OSPFS_FTYPE_SYMLINK
        /\ inodes[last.ino].oi_nlink = 1
        /\ inodes[last.ino].oi_size = Len(last.text)
        /\ C13_Text(inodes[last.ino]) = last.text
        /\ <<last.name, last.ino>>
              \in DirEntries(ospfs_data, inodes[OSPFS_ROOT_INO])

(***************************************************************************)
(* C14.  When unlink brings an inode's nlink to 0, every data block and    *)
(* index block the inode held before the call is marked free in the        *)
(* bitmap after it.                                                        *)
(***************************************************************************)
C14_UnlinkFreesBlocks ==
    [][(/\ last'.op = "unlink"
        /\ last'.ret = 0
        /\ inodes'[last'.ino].oi_nlink = 0) =>
          \A b \in Owned(ospfs_data, inodes[last'.ino]) :
              ~InUseBit(Freemap(ospfs_data'), b)]_vars

(***************************************************************************)
(* C15.  create, link and symlink called with a name that a non-free entry *)
(* of the directory already carries return already-exists and change       *)
(* nothing: the image and the inode table are as before the call.  As      *)
(* stated, for every such call; as amended, for the calls whose name is at *)
(* most OSPFS_MAXNAMELEN and whose text is at most OSPFS_MAXSYMLINKLEN     *)
(* bytes long, the length checks of link and symlink coming first.         *)
(***************************************************************************)
C15_NameExists ==
    /\ last'.op \in {"create", "link", "symlink"}
    /\ \E e \in DirEntries(ospfs_data, inodes[OSPFS_ROOT_INO]) :
          e[1] = last'.name

C15_Rejected ==
    /\ last'.ret = EEXIST
    /\ ospfs_data' = ospfs_data
    /\ inodes' = inodes

C17_CreatedThenUnlinked ==
    /\ last.op = "create"
    /\ last.ret = 0
    /\ last'.op = "unlink"
    /\ last'.name = last.name

C17_CreateUnlinkRestores ==
    [][C17_CreatedThenUnlinked =>
          /\ last'.ret = 0
          /\ DirEntries(ospfs_data', inodes'[OSPFS_ROOT_INO]) = last.pre_dir
          /\ inodes'[last.ino].oi_nlink = 0]_vars

\* The second call of a run is a successful unlink: the first was the
\* create of the name, and the directory is empty again.
C17_Restored ==
    /\ nops = 2
    /\ last.op = "unlink"
    /\ last.ret = 0
    /\ last.pre_dir = { <<last.name, last.ino>> }
    /\ inodes[last.ino].oi_nlink = 0
    /\ DirEntries(ospfs_data, inodes[OSPFS_ROOT_INO]) = {}

(***************************************************************************)
(* C18.  follow_link on a link whose text is "root?A:B", A and B not       *)
(* empty, returns A to a caller with uid 0 and B to any other caller; a    *)
(* text that does not start with "root?", one shorter than five bytes      *)
(* included, is returned unchanged.                                        *)
(***************************************************************************)
C18_HasPrefix(text) == Len(text) >= Len(Prefix) /\ SubSeq(text, 1, Len(Prefix)) = Prefix

C18_Followed(text, uid, link) ==
    /\ \A A \in Parts, B \in Parts :
          text = Conditional(A, B) => link = (IF uid = 0 THEN A ELSE B)
    /\ ~C18_HasPrefix(text) => link = text

C18_FollowLink ==
    last.op = "follow_link" =>
        \/ /\ C18_HasPrefix(C13_Text(inodes[last.ino]))
           /\ \A A \in Parts, B \in Parts :
                 C13_Text(inodes[last.ino]) # Conditional(A, B)
        \/ /\ last.ret = 0
           /\ C18_Followed(C13_Text(inodes[last.ino]), last.uid, last.link)

\* A caller other than root has followed "root?a:ba" and got "ba".
C18_OtherGotSecond ==
    /\ last.op = "follow_link"
    /\ last.uid # 0
    /\ C13_Text(inodes[last.ino]) = Conditional(<<97>>, <<98, 97>>)
    /\ last.link = <<98, 97>>

(***************************************************************************)
(* C19.  read(inode, count, pos) returns min(count, max(0, size - pos))    *)
(* bytes; with pos >= size, pos > size included, it returns 0 bytes and no *)
(* error; it never returns bytes beyond the file's size.                   *)
(***************************************************************************)
C19_Available(size, pos) == IF size > pos THEN size - pos ELSE 0

C19_ReadLength ==
    last.op = "read" =>
        /\ last.ret = Min(last.count, C19_Available(last.pre_oi.oi_size, last.pos))
        /\ Len(last.buf) = last.ret

(***************************************************************************)
(* C20.  unlink(dir, name) changes only the inode number of the matching   *)
(* entry, to 0, and the nlink of the dentry's inode, by -1: the            *)
(* directory's size, the other entries, the other inodes, the rest of the  *)
(* image and the name bytes of the cleared entry stay as they were.  When  *)
(* no non-free entry carries the name it returns not-found and changes     *)
(* nothing.                                                                *)
(***************************************************************************)
\* The directory's entries that carry the name and are not free.
C20_Matching(im, dir_oi, name) ==
    { k \in 0..((dir_oi.oi_size \div OSPFS_DIRENTRY_SIZE) - 1) :
        /\ od_ino(im, EntryAt(im, dir_oi, k)) # 0
        /\ EntryName(im, EntryAt(im, dir_oi, k)) = name }

\* The image differs from 'im' in the inode number of entry k alone, now 0.
C20_Cleared(im, dir_oi, k) ==
    /\ od_ino(ospfs_data', EntryAt(im, dir_oi, k)) = 0
    /\ ospfs_data' = PokeWord(im, EntryAt(im, dir_oi, k), 0)

C20_UnlinkFrame ==
    [][last'.op = "unlink" =>
          IF C20_Matching(ospfs_data, inodes[OSPFS_ROOT_INO], last'.name) = {}
          THEN /\ last'.ret = ENOENT
               /\ ospfs_data' = ospfs_data
               /\ inodes' = inodes
          ELSE /\ last'.ret = 0
               /\ \E k \in C20_Matching(ospfs_data, inodes[OSPFS_ROOT_INO],
                                        last'.name) :
                     C20_Cleared(ospfs_data, inodes[OSPFS_ROOT_INO], k)
               /\ inodes' = [inodes EXCEPT ![last'.ino].oi_nlink = @ - 1]
               /\ inodes[last'.ino].oi_nlink > 0]_vars

\* unlink has found no entry for the name of a dentry that is still
\* instantiated.
C20_NotFound ==
    /\ last.op = "unlink"
    /\ last.ret = ENOENT
    /\ dcache[last.name] = last.ino

(***************************************************************************)
(* C21.  A successful write(inode, buf, count, pos) leaves the size at     *)
(* max(old size, pos + count), returns count and advances the position by  *)
(* count; with the append flag the write starts at the old size whatever   *)
(* pos was given, so the size becomes old size + count.  No write, failed  *)
(* ones included, reduces the size.                                        *)
(***************************************************************************)
\* Where the write starts.
C21_Start(rec, oi) == IF rec.append THEN oi.oi_size ELSE rec.pos

C21_Max(a, b) == IF a > b THEN a ELSE b

C21_WriteSize ==
    [][last'.op = "write" =>
          /\ inodes'[last'.ino].oi_size >= inodes[last'.ino].oi_size
          /\ last'.ret >= 0 =>
                /\ last'.ret = last'.count
                /\ last'.f_pos = C21_Start(last', inodes[last'.ino]) + last'.count
                /\ inodes'[last'.ino].oi_size
                      = C21_Max(inodes[last'.ino].oi_size,
                                C21_Start(last', inodes[last'.ino]) + last'.count)]_vars

\* An appending write has added its bytes behind those the file held.
C21_Appended ==
    /\ last.op = "write"
    /\ last.append
    /\ last.pre_oi.oi_size > 0
    /\ last.ret = last.count
    /\ inodes[last.ino].oi_size = last.pre_oi.oi_size + last.count

(***************************************************************************)
(* C22.  readdir called again and again from cursor 0 until it reports the *)
(* end of the directory emits "." at cursor 0, ".." at cursor 1, then each *)
(* non-free slot k once, in slot order, at cursor 2 + k with the type of   *)
(* its inode (regular, directory, else symlink), the slots with ino == 0   *)
(* left out; an entry the consumer refuses is emitted again by the next    *)
(* call, so none is lost and none comes twice.                             *)
(***************************************************************************)
\* The type of the entry's inode; 0 when the entry names no inode.
C22_Type(ins, ino) ==
    IF ino \in DOMAIN ins THEN DType(ins[ino].oi_ftype) ELSE 0

RECURSIVE C22_Slots(_, _, _, _)
C22_Slots(im, ins, dir_oi, k) ==
    IF k >= dir_oi.oi_size \div OSPFS_DIRENTRY_SIZE THEN <<>>
    ELSE (IF od_ino(im, EntryAt(im, dir_oi, k)) = 0 THEN <<>>
          ELSE << Entry(EntryName(im, EntryAt(im, dir_oi, k)), 2 + k,
                        od_ino(im, EntryAt(im, dir_oi, k)),
                        C22_Type(ins, od_ino(im, EntryAt(im, dir_oi, k)))) >>)
         \o C22_Slots(im, ins, dir_oi, k + 1)

C22_Expected ==
    << Entry(Dot, 0, OSPFS_ROOT_INO, DT_DIR),
       Entry(DotDot, 1, OSPFS_ROOT_INO, DT_DIR) >>
    \o C22_Slots(ospfs_data, inodes, inodes[OSPFS_ROOT_INO], 0)

\* Every listing is a prefix of the expected one, its cursor behind the
\* last entry it emitted, and the whole of it once the end is reported.
C22_ReaddirListsAll ==
    last.op = "readdir" =>
        /\ last.ret \in {0, 1}
        /\ Len(last.emitted) <= Len(C22_Expected)
        /\ last.emitted = SubSeq(C22_Expected, 1, Len(last.emitted))
        /\ last.ret = 1 => last.emitted = C22_Expected
        /\ last.ret = 0 =>
              /\ Len(last.emitted) < Len(C22_Expected)
              /\ last.f_pos = C22_Expected[Len(last.emitted) + 1].f_pos

(***************************************************************************)
(* C23.  notify_change with a size attribute on a directory inode returns  *)
(* permission-denied and changes nothing: the directory's size, its        *)
(* blocks and, when the call carries a mode attribute too, its mode are as *)
(* before, and so are the image and every other inode.                     *)
(***************************************************************************)
C23_DirResizeDenied ==
    [][(/\ last'.op = "notify_change"
        /\ last'.attr.valid_size
        /\ inodes[last'.ino].oi_ftype = OSPFS_FTYPE_DIR) =>
          /\ last'.ret = EPERM
          /\ inodes' = inodes
          /\ ospfs_data' = ospfs_data]_vars

\* A resize of the root that carried another mode has been denied.
C23_DeniedWithMode ==
    /\ last.op = "notify_change"
    /\ last.ino = OSPFS_ROOT_INO
    /\ last.attr.valid_size
    /\ last.attr.valid_mode
    /\ last.attr.mode # last.pre_oi.oi_mode
    /\ last.attr.size # last.pre_oi.oi_size
    /\ last.ret = EPERM

(***************************************************************************)
(* C24.  After any sequence of operations, shrinks of files whose block    *)
(* count sits at a tier boundary included, the bitmap bits of the boot     *)
(* sector, the superblock, the bitmap blocks and the inode-table blocks    *)
(* are in use: no metadata block, block 0 included, is ever freed.         *)
(***************************************************************************)
C24_MetadataInUse ==
    \A b \in 0..(FirstDataBlock - 1) : InUseBit(Freemap(ospfs_data), b)

(***************************************************************************)
(* C25.  lookup and find_direntry (dir, name, len) return an entry if and  *)
(* only if some slot below the directory's size has ino != 0 and a stored  *)
(* name of exactly len bytes equal to name: an unlinked name is not found  *)
(* although its bytes remain in the slot, and a proper prefix or an        *)
(* extension of a stored name does not match.                              *)
(***************************************************************************)
\* The names looked up: those of the calls, and a prefix and an extension
\* of one of them.
C25_Lookups == Names \cup { <<99>>, <<99, 99>>, <<97, 97>> }

C25_Stored(im, dir_oi, name) ==
    \E k \in 0..((dir_oi.oi_size \div OSPFS_DIRENTRY_SIZE) - 1) :
        /\ od_ino(im, EntryAt(im, dir_oi, k)) # 0
        /\ EntryName(im, EntryAt(im, dir_oi, k)) = name

C26_Dirs(ins) ==
    { i \in 1..(os_ninodes - 1) :
        ins[i].oi_nlink > 0 /\ ins[i].oi_ftype = OSPFS_FTYPE_DIR }

C26_DirSizeGrows ==
    [][last'.op \in {"create", "link", "symlink", "unlink"} =>
          \A d \in C26_Dirs(inodes) :
              /\ inodes'[d].oi_size % OSPFS_DIRENTRY_SIZE = 0
              /\ inodes'[d].oi_size >= inodes[d].oi_size]_vars

\* A create or symlink that found no empty entry and grew the directory by
\* one entry.
C26_GrewByOneEntry ==
    /\ last.op \in {"create", "symlink"}
    /\ last.ret = 0
    /\ inodes[OSPFS_ROOT_INO].oi_size =
           last.pre_oi.oi_size + OSPFS_DIRENTRY_SIZE

(***************************************************************************)
(* C27.  change_size comes to an end for every current size and every new  *)
(* size, whether or not blocks run out: the call that changes a file's     *)
(* size returns 0 and leaves the size asked for, or returns a negative     *)
(* error.                                                                  *)
(***************************************************************************)
C27_ChangeSizeReturns ==
    [][(/\ last'.op = "notify_change"
        /\ last'.attr.valid_size
        /\ last'.pre_oi.oi_ftype # OSPFS_FTYPE_DIR)
          => \/ (/\ last'.ret = 0
                 /\ inodes'[last'.ino].oi_size = last'.attr.size)
             \/ last'.ret \in {ENOSPC, EIO}]_vars

(***************************************************************************)
(* C28.  A shrink step (remove_block) on a file of n blocks frees the      *)
(* file's last data block, file block n - 1, and each index block that     *)
(* this removal empties, and no other block, and leaves the file one block *)
(* shorter: ceil(size / B) goes down by exactly one, for every n and also  *)
(* for sizes that are no multiple of B.                                    *)
(***************************************************************************)
\* The index blocks a file of n blocks has and one of n - 1 blocks has not.
C28_Emptied(im, oi, n) ==
    { IndexRefs(im, oi, n)[k] :
        k \in (IndexNeed(n - 1) + 1)..IndexNeed(n) }

\* The blocks in use in 'im' and free in 'after'.
C28_Freed(im, after) ==
    { b \in 0..(os_nblocks - 1) :
        InUseBit(Freemap(im), b) /\ ~InUseBit(Freemap(after), b) }

C28_StepOk(im, oi, n, d) ==
    /\ d.r = 0
    /\ ospfs_size2nblocks(d.oi.oi_size) = n - 1
    /\ C28_Freed(im, d.img)
          = {block_of(im, oi, n - 1)} \cup C28_Emptied(im, oi, n)

C28_ShrinkStepFreesLast ==
    \A ino \in Live(inodes) :
        (inodes[ino].oi_ftype = OSPFS_FTYPE_REG /\ inodes[ino].oi_size > 0)
            => C28_StepOk(ospfs_data, inodes[ino],
                          ospfs_size2nblocks(inodes[ino].oi_size),
                          remove_block(ospfs_data, inodes[ino]))

(***************************************************************************)
(* C29.  After a shrink, no pointer slot of the inode (direct[], indirect, *)
(* indirect2) and no slot of an index block that survives holds the number *)
(* of a block that is free in the bitmap: the pointer of every freed block *)
(* has been reset to 0.                                                    *)
(***************************************************************************)
\* The words of index block b; none for b = 0, the empty slot.
C29_Words(im, b) ==
    IF b = 0 \/ b >= os_nblocks THEN {}
    ELSE { BlockWord(im, b, k) : k \in 0..(OSPFS_NINDIRECT - 1) }

\* What the pointer slots of the inode and of its index blocks hold.
C29_Slots(im, oi) ==
    { oi.oi_direct[k] : k \in 0..(OSPFS_NDIRECT - 1) }
    \cup {oi.oi_indirect, oi.oi_indirect2}
    \cup C29_Words(im, oi.oi_indirect)
    \cup C29_Words(im, oi.oi_indirect2)
    \cup UNION { C29_Words(im, b) : b \in C29_Words(im, oi.oi_indirect2) }

C29_NoPointerToFreeBlock ==
    (/\ SizeChange(last)
     /\ last.ret = 0
     /\ ospfs_size2nblocks(last.pre_oi.oi_size)
           > ospfs_size2nblocks(last.attr.size))
        => \A b \in C29_Slots(ospfs_data, inodes[last.ino]) :
              (b # 0 /\ b < os_nblocks) => InUseBit(Freemap(ospfs_data), b)

(***************************************************************************)
(* C30.  allocate_block returns the lowest-numbered block of the data      *)
(* region, first_inode_block + inode_table_len .. nblocks - 1, whose       *)
(* bitmap bit is 1, and clears that bit and no other; when there is no     *)
(* such block, one free block or none being cases of it, it returns 0 and  *)
(* leaves the bitmap as it was.                                            *)
(***************************************************************************)
C30_FreeData(im) ==
    { b \in FirstDataBlock..(os_nblocks - 1) : ~InUseBit(Freemap(im), b) }

C30_Lowest(blocks) == CHOOSE b \in blocks : \A c \in blocks : b <= c

\* The bitmap of 'after' is that of 'im' with block blk marked in use.
C30_OnlyCleared(im, after, blk) ==
    \A b \in 0..(os_nblocks - 1) :
        InUseBit(Freemap(after), b) <=> (InUseBit(Freemap(im), b) \/ b = blk)

C30_AllocOk(im, a) ==
    IF C30_FreeData(im) = {}
    THEN a.blk = 0 /\ Freemap(a.img) = Freemap(im)
    ELSE /\ a.blk = C30_Lowest(C30_FreeData(im))
         /\ C30_OnlyCleared(im, a.img, a.blk)

C30_AllocateLowest == C30_AllocOk(ospfs_data, allocate_block(ospfs_data))

(***************************************************************************)
(* C31.  When the bitmap spans more than one block, allocate_block and     *)
(* free_block address the same bit for every block number n, bit n % 32 of *)
(* word n / 32 of the bitmap region: allocate_block returns n only if bit  *)
(* n of the region was 1 and clears exactly bit n; free_block(n) sets      *)
(* exactly bit n and changes no other bit.                                 *)
(***************************************************************************)
\* Bit n of the bitmap region, which starts at block OSPFS_FREEMAP_BLK.
C31_Bit(im, n) ==
    BitOf(Peek(im, OSPFS_FREEMAP_BLK * OSPFS_BLKSIZE + (n \div 8)), n % 8)

\* The region of 'after' is that of 'im' with bit n set to v.
C31_OnlyBit(im, after, n, v) ==
    \A b \in 0..(map_super.os_nblocks - 1) :
        C31_Bit(after, b) = IF b = n THEN v ELSE C31_Bit(im, b)

C31_SameBit ==
    [][/\ (last'.op = "allocate_block" /\ last'.ret # 0)
            => /\ C31_Bit(ospfs_data, last'.ret) = 1
               /\ C31_OnlyBit(ospfs_data, ospfs_data', last'.ret, 0)
       /\ last'.op = "free_block"
            => C31_OnlyBit(ospfs_data, ospfs_data', last'.pos, 1)]_vars

(***************************************************************************)
(* C32.  allocate_block never returns the number of a block below          *)
(* first_inode_block + inode_table_len (boot sector, superblock, bitmap or *)
(* inode table), even in a state where the bitmap bit of such a block is   *)
(* 1.  (0 is its out-of-space return, not a block.)                        *)
(***************************************************************************)
C32_Returned(a) == a.blk = 0 \/ a.blk >= FirstDataBlock

C32_AllocateSkipsMetadata == C32_Returned(allocate_block(ospfs_data))

(***************************************************************************)
(* C33.  A single grow step (add_block) that cannot obtain all the blocks  *)
(* it needs, one data block and at a tier boundary one or two index blocks *)
(* as well, returns no-space with the bitmap, the inode's pointers and the *)
(* inode's size exactly as they were before the step.                      *)
(***************************************************************************)
C33_StepOk(im, oi, a) ==
    a.r < 0 =>
        /\ a.r = ENOSPC
        /\ Freemap(a.img) = Freemap(im)
        /\ Pointers(a.oi) = Pointers(oi)
        /\ a.oi.oi_size = oi.oi_size

C33_GrowStepFailureRestores ==
    \A ino \in Live(inodes) :
        inodes[ino].oi_ftype = OSPFS_FTYPE_REG
            => C33_StepOk(ospfs_data, inodes[ino],
                          add_block(ospfs_data, inodes[ino]))

(***************************************************************************)
(* C34.  A grow step that adds file block n allocates exactly 1 block when *)
(* n stays inside an existing table, 2 blocks (data and single-indirect)   *)
(* when n = ND or n starts a new single-indirect child in the doubly       *)
(* indirect region, and 3 blocks (data, doubly indirect root and its first *)
(* child) when n = ND + NI.  After the step each new index block is linked *)
(* from the inode's indirect or indirect2 pointer or from the right slot   *)
(* of the doubly indirect block, and the new data block from the right     *)
(* slot of its table.                                                      *)
(***************************************************************************)
\* File block n counted from the start of the doubly indirect region.
C34_Off(n) == n - OSPFS_NDIRECT - OSPFS_NINDIRECT

C34_Count(n) ==
    IF n = OSPFS_NDIRECT + OSPFS_NINDIRECT THEN 3
    ELSE IF n = OSPFS_NDIRECT
            \/ (C34_Off(n) > 0 /\ C34_Off(n) % OSPFS_NINDIRECT = 0)
    THEN 2
    ELSE 1

\* The blocks free in 'im' and in use in 'after'.
C34_Taken(im, after) ==
    { b \in 0..(os_nblocks - 1) :
        ~InUseBit(Freemap(im), b) /\ InUseBit(Freemap(after), b) }

\* The index blocks file block n hangs from, and the data block itself,
\* each read from the slot the layout gives it.
C34_Linked(im, oi, n) ==
    IF n < OSPFS_NDIRECT THEN {oi.oi_direct[n]}
    ELSE IF n < OSPFS_NDIRECT + OSPFS_NINDIRECT
    THEN {oi.oi_indirect, BlockWord(im, oi.oi_indirect, n - OSPFS_NDIRECT)}
    ELSE {oi.oi_indirect2,
          BlockWord(im, oi.oi_indirect2, C34_Off(n) \div OSPFS_NINDIRECT),
          BlockWord(im, BlockWord(im, oi.oi_indirect2,
                                  C34_Off(n) \div OSPFS_NINDIRECT),
                    C34_Off(n) % OSPFS_NINDIRECT)}

C34_StepOk(im, n, a) ==
    a.r = 0 =>
        /\ Cardinality(C34_Taken(im, a.img)) = C34_Count(n)
        /\ C34_Taken(im, a.img) \subseteq C34_Linked(a.img, a.oi, n)

C34_GrowStepLinks ==
    \A ino \in Live(inodes) :
        (/\ inodes[ino].oi_ftype = OSPFS_FTYPE_REG
         /\ ospfs_size2nblocks(inodes[ino].oi_size) < MaxFileBlocks)
            => C34_StepOk(ospfs_data,
                          ospfs_size2nblocks(inodes[ino].oi_size),
                          add_block(ospfs_data, inodes[ino]))

(***************************************************************************)
(* C35.  A change_size that would need more than ND + NI + NI * NI file    *)
(* blocks is rejected with an error and leaves the file's blocks, its      *)
(* pointers (oi_indirect2 among them) and its size as they were.           *)
(***************************************************************************)
C35_TooLarge(rec) ==
    /\ SizeChange(rec)
    /\ ospfs_size2nblocks(rec.attr.size) > MaxFileBlocks

C35_OversizeRejected ==
    [][C35_TooLarge(last') =>
          /\ last'.ret \in {ENOSPC, EIO}
          /\ Pointers(inodes'[last'.ino]) = Pointers(inodes[last'.ino])
          /\ inodes'[last'.ino].oi_size = inodes[last'.ino].oi_size
          /\ Freemap(ospfs_data') = Freemap(ospfs_data)]_vars

(***************************************************************************)
(* C36.  After a successful grow every byte of every newly added file      *)
(* block reads as zero: all file offsets from the start of the first added *)
(* block up to the new size, the first block of the single-indirect tier   *)
(* included.                                                               *)
(***************************************************************************)
C36_Grown ==
    /\ SizeChange(last)
    /\ last.ret = 0
    /\ ospfs_size2nblocks(last.pre_oi.oi_size)
          < ospfs_size2nblocks(last.attr.size)

\* The offsets of the blocks the call added.
C36_Added ==
    (ospfs_size2nblocks(last.pre_oi.oi_size) * OSPFS_BLKSIZE)
        ..(last.attr.size - 1)

C36_Byte(im, oi, offset) == Peek(im, ospfs_inode_data(im, oi, offset))

C36_NewBlocksZero ==
    C36_Grown =>
        \A offset \in C36_Added :
            C36_Byte(ospfs_data, inodes[last.ino], offset) = 0

(***************************************************************************)
(* C37.  create_blank_direntry returns the lowest-indexed slot whose ino   *)
(* is 0, without changing the directory's size, when there is such a slot  *)
(* (a slot cleared by unlink is used again); otherwise it grows the        *)
(* directory by exactly one entry and returns the new last slot, whose ino *)
(* is 0; when that growth fails it returns no-space and leaves the         *)
(* directory as it was.                                                    *)
(***************************************************************************)
\* The address of slot k of the directory.
C37_Slot(im, dir_oi, k) ==
    ospfs_inode_data(im, dir_oi, k * OSPFS_DIRENTRY_SIZE)

\* The slots below the directory's size whose ino is 0.
C37_Blank(im, dir_oi) ==
    { k \in 0..((dir_oi.oi_size \div OSPFS_DIRENTRY_SIZE) - 1) :
        od_ino(im, C37_Slot(im, dir_oi, k)) = 0 }

C37_Lowest(slots) == CHOOSE k \in slots : \A j \in slots : k <= j

C37_Reused(im, dir_oi, blank) ==
    /\ blank.err = 0
    /\ blank.od = C37_Slot(im, dir_oi, C37_Lowest(C37_Blank(im, dir_oi)))
    /\ blank.oi = dir_oi
    /\ blank.img = im

C37_Grown(im, dir_oi, blank) ==
    \/ /\ blank.err = 0
       /\ blank.oi.oi_size = dir_oi.oi_size + OSPFS_DIRENTRY_SIZE
       /\ blank.od = C37_Slot(blank.img, blank.oi,
                              dir_oi.oi_size \div OSPFS_DIRENTRY_SIZE)
       /\ od_ino(blank.img, blank.od) = 0
    \/ /\ blank.err = ENOSPC
       /\ blank.oi = dir_oi
       /\ blank.img = im

C37_BlankOk(im, dir_oi, blank) ==
    IF C37_Blank(im, dir_oi) # {} THEN C37_Reused(im, dir_oi, blank)
    ELSE C37_Grown(im, dir_oi, blank)

C37_BlankEntry ==
    C37_BlankOk(ospfs_data, inodes[OSPFS_ROOT_INO],
                create_blank_direntry(ospfs_data, inodes[OSPFS_ROOT_INO]))

(***************************************************************************)
(* C38.  At every point of a grow step, taken statement group by statement *)
(* group (after the allocations, after the zeroing, after the linking      *)
(* stores, after the size update), every file block the inode claims, that *)
(* is every block index below the block count of its current size, is      *)
(* linked in the inode's tree and in use in the bitmap: each pointer on the*)
(* path from the inode to the block (the direct slot; oi_indirect and its  *)
(* slot; oi_indirect2, the slot of the child and the slot in the child) is *)
(* the number of a data block that the bitmap marks in use.  The size is   *)
(* the last thing the step changes.                                        *)
(***************************************************************************)
\* The pointers on the path from the inode to file block k.
C38_Path(im, oi, k) ==
    IF k < OSPFS_NDIRECT THEN {oi.oi_direct[k]}
    ELSE IF k < OSPFS_NDIRECT + OSPFS_NINDIRECT
    THEN {oi.oi_indirect, BlockWord(im, oi.oi_indirect, k - OSPFS_NDIRECT)}
    ELSE {oi.oi_indirect2,
          BlockWord(im, oi.oi_indirect2, indir_index(k)),
          BlockWord(im, BlockWord(im, oi.oi_indirect2, indir_index(k)),
                    direct_index(k))}

C38_Held(im, b) ==
    /\ b >= FirstDataBlock
    /\ b < os_nblocks
    /\ InUseBit(Freemap(im), b)

C38_ClaimsHeld(im, oi) ==
    \A k \in 0..(ospfs_size2nblocks(oi.oi_size) - 1) :
        \A b \in C38_Path(im, oi, k) : C38_Held(im, b)

C38_GrowStepOrder ==
    last.op = "add_block" => C38_ClaimsHeld(ospfs_data, inodes[last.ino])

(***************************************************************************)
(* C39.  After any sequence of create, link, symlink and unlink calls, in  *)
(* any order, the directory holds no two entries in use (od_ino not 0)     *)
(* with the same name.                                                     *)
(***************************************************************************)
\* The slots of the directory that are in use.
C39_InUse(im, dir_oi) ==
    { k \in 0..((dir_oi.oi_size \div OSPFS_DIRENTRY_SIZE) - 1) :
        od_ino(im, EntryAt(im, dir_oi, k)) # 0 }

C39_Distinct(im, dir_oi) ==
    \A j, k \in C39_InUse(im, dir_oi) :
        j # k => EntryName(im, EntryAt(im, dir_oi, j))
                    # EntryName(im, EntryAt(im, dir_oi, k))

C40_Substring(link, text) ==
    \E start \in 1..(Len(text) + 1) :
        /\ start + Len(link) - 1 <= Len(text)
        /\ \A k \in 1..Len(link) : link[k] = text[start + k - 1]

C40_FollowStaysInside ==
    last.op = "follow_link" =>
        /\ ~ospfs_follow_link(inodes[last.ino], last.uid).overrun
        /\ last.ret = 0
        /\ C40_Substring(last.link, C13_Text(inodes[last.ino]))


=============================================================================
